---- MODULE Spec2Model ----
(***************************************************************************)
(* Verification model of the numerical toolkit: the four root finders      *)
(* (rootsOfNonLinear.py, newton_Raphson.py), the two interpolators         *)
(* (interpolation/mainInterpolation.py) and the least-squares fitter       *)
(* (curveFitting.py).                                                      *)
(*                                                                         *)
(* Numbers.  The program computes with Python floats.  The model computes  *)
(* with exact rationals [n |-> numerator, d |-> denominator], d > 0, kept  *)
(* in lowest terms, so that equal values are equal records.  Numerators    *)
(* and denominators are TLC integers and therefore below 2^31 < 10^10;     *)
(* the two hard-coded thresholds of the program that do not fit this range *)
(* (1e-10) are compared exactly by the operators LtTiny / FlatDerivative / *)
(* StepHuge below, which say how.                                          *)
(***************************************************************************)
EXTENDS Integers, Sequences, FiniteSets, TLC

(***************************************************************************)
(* Bounds of the model.                                                    *)
(***************************************************************************)
\* largest max_iter a caller passes
MaxIter == 3
\* largest max_iter a caller passes to simple_iteration (its oscillation
\* check only starts at the sixth pass)
MaxIterSimple == 6
\* largest number of sample points of an interpolation or a fit
MaxPoints == 3

(***************************************************************************)
(* Exact rational arithmetic standing for the float arithmetic.            *)
(***************************************************************************)
IAbs(k) == IF k < 0 THEN -k ELSE k

RECURSIVE GCD(_, _)
GCD(p, q) == IF q = 0 THEN p ELSE GCD(q, p % q)

\* the rational n/d in lowest terms with a positive denominator (d # 0)
Rat(n, d) ==
    LET g == GCD(IAbs(n), IAbs(d))
        s == IF d < 0 THEN -1 ELSE 1
    IN  [n |-> s * (n \div g), d |-> s * (d \div g)]

RInt(k) == [n |-> k, d |-> 1]
RZero == RInt(0)
\* sums over the least common denominator, products and quotients after
\* cross-cancelling, so that intermediate integers stay small
RAdd(p, q) ==
    LET g == GCD(p.d, q.d)
    IN  Rat(p.n * (q.d \div g) + q.n * (p.d \div g), (p.d \div g) * q.d)
RNeg(p) == [n |-> -p.n, d |-> p.d]
RSub(p, q) == RAdd(p, RNeg(q))
RMul(p, q) ==
    LET g1 == GCD(IAbs(p.n), q.d)
        g2 == GCD(IAbs(q.n), p.d)
    IN  Rat((p.n \div g1) * (q.n \div g2), (p.d \div g2) * (q.d \div g1))
\* p / q for q # 0
RDiv(p, q) ==
    RMul(p, IF q.n < 0 THEN [n |-> -q.d, d |-> -q.n] ELSE [n |-> q.d, d |-> q.n])
RAbs(p) == [n |-> IAbs(p.n), d |-> p.d]
\* comparisons by the integer parts first, then by the fractional parts over
\* the common denominator, so that no product leaves the integer range
RLt(p, q) ==
    LET fp == p.n \div p.d
        fq == q.n \div q.d
        g == GCD(p.d, q.d)
    IN  IF fp # fq THEN fp < fq
        ELSE (p.n - fp * p.d) * (q.d \div g) < (q.n - fq * q.d) * (p.d \div g)
RLe(p, q) == p = q \/ RLt(p, q)
RSign(p) == IF p.n > 0 THEN 1 ELSE IF p.n < 0 THEN -1 ELSE 0

\* 10 ** k for a natural k
RECURSIVE IPow10(_)
IPow10(k) == IF k = 0 THEN 1 ELSE 10 * IPow10(k - 1)

\* 10 ** (-fixed_digits): Python gives 10**k for fixed_digits = -k <= 0
Pow10Neg(fixed_digits) ==
    IF fixed_digits >= 0 THEN Rat(1, IPow10(fixed_digits))
                         ELSE RInt(IPow10(-fixed_digits))

\* p < 1e-10.  A rational of the model has a denominator below 2^31 < 10^10,
\* so a positive one is at least 1/d > 1e-10: p < 1e-10 exactly when p <= 0.
LtTiny(p) == p.n <= 0

DivergeLimit == 1000000

\* variant: the comparison written >=
GtDivergeLimit_ge(p) == IAbs(p.n) \div p.d >= DivergeLimit

\* abs(p) > 1e6, computed without the product 10^6 * p.d
GtDivergeLimit(p) ==
    LET m == IAbs(p.n)
    IN  \/ m \div p.d > DivergeLimit
        \/ m \div p.d = DivergeLimit /\ m % p.d > 0

(***************************************************************************)
(* numpy float64 arithmetic of the interpolators and the fitter.  A        *)
(* division by zero does not raise there: it gives inf or nan, which then  *)
(* propagate.  [n |-> 0, d |-> 0] is nan, [n |-> 1, d |-> 0] is inf and    *)
(* [n |-> -1, d |-> 0] is -inf; every other value is an exact rational.    *)
(***************************************************************************)
FNaN == [n |-> 0, d |-> 0]
FInf(sg) == [n |-> sg, d |-> 0]
IsFinite(p) == p.d # 0
IsNaN(p) == p.d = 0 /\ p.n = 0
FNeg(p) == [n |-> -p.n, d |-> p.d]
FAdd(p, q) ==
    IF IsFinite(p) /\ IsFinite(q) THEN RAdd(p, q)
    ELSE IF IsNaN(p) \/ IsNaN(q) THEN FNaN
    ELSE IF IsFinite(q) THEN p
    ELSE IF IsFinite(p) THEN q
    ELSE IF p.n = q.n THEN p ELSE FNaN
FSub(p, q) == FAdd(p, FNeg(q))
FMul(p, q) ==
    IF IsFinite(p) /\ IsFinite(q) THEN RMul(p, q)
    ELSE IF IsNaN(p) \/ IsNaN(q) THEN FNaN
    ELSE IF p.n = 0 \/ q.n = 0 THEN FNaN
    ELSE FInf(RSign(p) * RSign(q))
FDiv(p, q) ==
    IF IsNaN(p) \/ IsNaN(q) THEN FNaN
    ELSE IF IsFinite(q)
      THEN IF q.n = 0
             THEN IF p.n = 0 THEN FNaN ELSE FInf(RSign(p))
           ELSE IF IsFinite(p) THEN RDiv(p, q)
           ELSE FInf(RSign(p) * RSign(q))
    ELSE IF IsFinite(p) THEN RZero ELSE FNaN

(***************************************************************************)
(* Caller-supplied evaluators.  The solvers receive opaque Python          *)
(* callables; the model draws them from a family of polynomials            *)
(* c2*x^2 + c1*x + c0 (rational coefficients) that raise an exception of type exc on part of their *)
(* domain (dom): nowhere, at x = 0, for x < 0, or for x > 1.               *)
(***************************************************************************)
ExcTypes == {"ZeroDivisionError", "ValueError", "OverflowError"}

Evaluator(c2, c1, c0, dom, exc) ==
    [c2 |-> c2, c1 |-> c1, c0 |-> c0, dom |-> dom, exc |-> exc]

Raises(f, x) ==
    CASE f.dom = "all"      -> FALSE
      [] f.dom = "nonzero"  -> x.n = 0
      [] f.dom = "nonneg"   -> x.n < 0
      [] f.dom = "le1"      -> RLt(RInt(1), x)

\* the value f(x) where f does not raise
Value(f, x) ==
    RAdd(RMul(RAdd(RMul(f.c2, x), f.c1), x), f.c0)

\* one call func(x): either a value or a raised exception
Call(f, x) ==
    IF Raises(f, x) THEN [exc |-> f.exc, val |-> RZero]
                    ELSE [exc |-> "none", val |-> Value(f, x)]

Guards == { <<"all", "none">>, <<"nonzero", "ZeroDivisionError">>,
            <<"nonneg", "ValueError">>, <<"le1", "OverflowError">> }

(***************************************************************************)
(* Outcomes of a call: still running, returned its trace, or raised.       *)
(***************************************************************************)
Running == [kind |-> "none", type |-> "none", msg |-> "none", info |-> <<>>]
Returned == [kind |-> "return", type |-> "none", msg |-> "none", info |-> <<>>]
Raised(type, msg, info) ==
    [kind |-> "raise", type |-> type, msg |-> msg, info |-> info]

\* a content of the results pane: the message and the coefficients it shows
\* (the program prints them with four decimals)
Text(msg, first, second) == [msg |-> msg, first |-> first, second |-> second]

VARIABLES
    method,        \* the entry point called, "none" before the call
    func,          \* the evaluator passed as func
    dfunc,         \* the evaluator passed as dfunc (Newton-Raphson)
    tolerance,     \* argument tolerance
    max_iter,      \* argument max_iter
    fixed_digits,  \* argument fixed_digits
    args,          \* the numeric arguments as passed (a, b / x0, x1 / x0)
    loc,           \* the local variables of the running call
    i,             \* the loop variable of `for i in range(max_iter)`
    results,       \* the list `results`
    pc,            \* "idle", "loop" or "done"
    outcome,       \* Running, Returned or Raised(...)
    evals,         \* number of calls of func / dfunc made so far
    \* interpolation (mainInterpolation.py)
    x_points,      \* the x column of the points table
    y_points,      \* the y column of the points table
    x_interp,      \* the evaluation point
    lagrange,      \* what lagrange_interpolation returned, <<>> before the call
    newton,        \* what newton_divided_difference returned, <<>> before the call
    details,       \* <<divided_diff_table>> of the NewtonDetails shown, <<>> before
    \* curve fitting (curveFitting.py)
    table,         \* the rows of the data table
    fit_call,      \* the operation invoked on the table, "none" before
    fit_result,    \* what that operation returned or raised, <<>> before
    results_text,  \* the content of the results pane
    status,        \* the status bar message
    solves,        \* number of np.linalg.solve calls made
    \* two solver calls in flight at once
    parked,        \* the frame of the call that is not running now
    active         \* which of the two calls is running now, 1 or 2

rootVars == <<method, func, dfunc, tolerance, max_iter, fixed_digits, args, loc,
              i, results, pc, outcome, evals>>
interpVars == <<x_points, y_points, x_interp, lagrange, newton, details>>
fitVars == <<table, fit_call, fit_result, results_text, status, solves>>
pairVars == <<parked, active>>
vars == <<rootVars, interpVars, fitVars, pairVars>>

NoFunc == Evaluator(RZero, RZero, RZero, "all", "none")

\* the frame of a call: the arguments and the local variables of the solver
\* function that runs it
Frame(m, f, df, tol, mi, fd, ar, lc, k, res, p, o, ev) ==
    [method |-> m, func |-> f, dfunc |-> df, tolerance |-> tol, max_iter |-> mi,
     fixed_digits |-> fd, args |-> ar, loc |-> lc, i |-> k, results |-> res,
     pc |-> p, outcome |-> o, evals |-> ev]
\* the frame of a call not made yet
IdleFrame == Frame("none", NoFunc, NoFunc, RZero, 0, 0, <<>>, <<>>, 0, <<>>, "idle",
                   Running, 0)

Init ==
    /\ parked = IdleFrame
    /\ active = 1
    /\ method = "none"
    /\ func = NoFunc
    /\ dfunc = NoFunc
    /\ tolerance = RZero
    /\ max_iter = 0
    /\ fixed_digits = 0
    /\ args = <<>>
    /\ loc = <<>>
    /\ i = 0
    /\ results = <<>>
    /\ pc = "idle"
    /\ outcome = Running
    /\ evals = 0
    /\ x_points = <<>>
    /\ y_points = <<>>
    /\ x_interp = RZero
    /\ lagrange = <<>>
    /\ newton = <<>>
    /\ details = <<>>
    /\ table = <<>>
    /\ fit_call = "none"
    /\ fit_result = <<>>
    /\ results_text = Text("", <<>>, <<>>)
    /\ status = "Ready to calculate curve fitting"
    /\ solves = 0

(***************************************************************************)
(* Inputs the callers pass.                                                *)
(***************************************************************************)
Tolerances == { RZero, Rat(1, 10), Rat(1, 2) }
MaxIters == 0 .. MaxIter
FixedDigits == { 0, 1 }
Endpoints == { RInt(k) : k \in -1 .. 2 }

\* x^2 - 2, x - 1, 2x - 1, the constant 1
BisectionBodies ==
    { <<RInt(1), RZero, RInt(-2)>>, <<RZero, RInt(1), RInt(-1)>>,
      <<RZero, RInt(2), RInt(-1)>>, <<RZero, RZero, RInt(1)>> }

Evaluators(bodies) ==
    { Evaluator(c[1], c[2], c[3], g[1], g[2]) : c \in bodies, g \in Guards }

\* variant: the record written over the last one
Recorded_overwrite(res, rec) ==
    IF res = <<>> THEN <<rec>> ELSE [res EXCEPT ![Len(res)] = rec]

\* `results.append(rec)`
Recorded(res, rec) == Append(res, rec)

\* variant: one pass too many
LoopRuns_inclusive(k, mi) == k <= mi

\* `for i in range(max_iter)`: the body runs for the k-th time (k from 0)
LoopRuns(k, mi) == k < mi

(***************************************************************************)
(* NumericalMethods.bisection                                              *)
(***************************************************************************)
\* the argument checks before the first evaluation: the message of the
\* ValueError raised, or "ok"
BisectionValidate(mi, tol, a, b) ==
    IF mi <= 0 THEN "max_iter must be positive"
    ELSE IF RLe(tol, RZero) THEN "tolerance must be positive"
    ELSE IF RLe(b, a) THEN "Left endpoint must be less than right endpoint"
    ELSE "ok"

\* variant: the test written fa * fb > 0, which lets an endpoint root through
NoSignChange_strict(fa, fb) == RLt(RZero, RMul(fa, fb))

\* fa * fb >= 0
NoSignChange(fa, fb) == RLe(RZero, RMul(fa, fb))

\* variant: the two stopping tests joined by `and`
BisectionConverged_and(fc, a, b, tol, fd) ==
    /\ RLt(RAbs(fc), tol)
    /\ RLt(RAbs(RSub(b, a)), Pow10Neg(fd))

\* abs(fc) < tolerance or abs(b - a) < 10**(-fixed_digits)
BisectionConverged(fc, a, b, tol, fd) ==
    \/ RLt(RAbs(fc), tol)
    \/ RLt(RAbs(RSub(b, a)), Pow10Neg(fd))

\* A double next to 2^52, written by its offset from 2^52: the record holds
\* the offset as a rational and the field `at`.  The doubles there are the
\* integers from 2^52 up and the half-integers below, so the endpoints
\* 2^52 - 1 .. 2^52 + 2 are doubles.  An evaluator called on such a number
\* reads the offset: it stands for the function x -> body(x - 2**52).
Near2p52(o) == [n |-> o.n, d |-> o.d, at |-> 52]

IsNear2p52(p) == "at" \in DOMAIN p

\* The multiple of g nearest to s, a tie going to the even multiple
\* (IEEE 754 round-to-nearest-even on a grid of spacing g).
RoundToGrid(s, g) ==
    LET t     == Rat(s.n, s.d * g)
        q     == t.n \div t.d
        twice == RSub(RAdd(t, t), RInt(2 * q))
    IN  IF RLt(twice, RInt(1)) THEN RInt(q * g)
        ELSE IF RLt(RInt(1), twice) THEN RInt((q + 1) * g)
        ELSE IF q % 2 = 0 THEN RInt(q * g)
        ELSE RInt((q + 1) * g)

\* a + b of two doubles next to 2^52, as an offset from 2^53: the doubles
\* from 2^53 up are 2 apart, those below are 1 apart.
SumNear2p53(a, b) ==
    LET s == RAdd(a, b)
    IN  IF s.n >= 0 THEN RoundToGrid(s, 2) ELSE RoundToGrid(s, 1)

\* c = (a + b) / 2: exact on the small numbers, whose sums and halves are
\* doubles; next to 2^52 the sum is rounded to a double and then halved.
Midpoint(a, b) ==
    IF IsNear2p52(a)
    THEN Near2p52(RDiv(SumNear2p53(a, b), RInt(2)))
    ELSE RDiv(RAdd(a, b), RInt(2))

\* if fa * fc < 0: b, fb = c, fc  else: a, fa = c, fc
Narrowed(l, c, fc) ==
    IF RLt(RMul(l.fa, fc), RZero) THEN [l EXCEPT !.b = c, !.fb = fc]
                                  ELSE [l EXCEPT !.a = c, !.fa = fc]

\* the call and its prologue, up to `results = []`
BisectionEnter ==
    /\ UNCHANGED <<interpVars, fitVars, pairVars>>
    /\ pc = "idle"
    /\ \E f \in Evaluators(BisectionBodies), ea \in Endpoints,
          eb \in Endpoints, near \in BOOLEAN,
          tol \in Tolerances, mi \in MaxIters, fd \in FixedDigits :
          LET a  == IF near THEN Near2p52(ea) ELSE ea
              b  == IF near THEN Near2p52(eb) ELSE eb
              v  == BisectionValidate(mi, tol, a, b)
              ra == Call(f, a)
              rb == Call(f, b)
          IN  /\ method' = "bisection"
              /\ func' = f
              /\ tolerance' = tol
              /\ max_iter' = mi
              /\ fixed_digits' = fd
              /\ args' = <<a, b>>
              /\ results' = <<>>
              /\ i' = 0
              /\ IF v # "ok"
                   THEN /\ outcome' = Raised("ValueError", v, <<>>)
                        /\ pc' = "done"
                        /\ loc' = <<>>
                        /\ evals' = 0
                 ELSE IF ra.exc # "none"
                   THEN /\ outcome' = Raised(ra.exc, "raised by func", <<a>>)
                        /\ pc' = "done"
                        /\ loc' = <<>>
                        /\ evals' = 1
                 ELSE IF rb.exc # "none"
                   THEN /\ outcome' = Raised(rb.exc, "raised by func", <<b>>)
                        /\ pc' = "done"
                        /\ loc' = <<>>
                        /\ evals' = 2
                 ELSE IF NoSignChange(ra.val, rb.val)
                   THEN /\ outcome' = Raised("ValueError",
                               "Function must have opposite signs at interval endpoints",
                               <<>>)
                        /\ pc' = "done"
                        /\ loc' = <<>>
                        /\ evals' = 2
                 ELSE   /\ outcome' = Running
                        /\ pc' = "loop"
                        /\ loc' = [a |-> a, b |-> b, fa |-> ra.val, fb |-> rb.val]
                        /\ evals' = 2
    /\ UNCHANGED dfunc

\* one pass of the body of `for i in range(max_iter)`
BisectionStep ==
    /\ UNCHANGED <<interpVars, fitVars, pairVars>>
    /\ pc = "loop"
    /\ method = "bisection"
    /\ LoopRuns(i, max_iter)
    /\ LET c  == Midpoint(loc.a, loc.b)
           rc == Call(func, c)
           fc == rc.val
       IN  /\ evals' = evals + 1
           /\ IF rc.exc # "none"
                THEN /\ outcome' = Raised(rc.exc, "raised by func", <<c>>)
                     /\ pc' = "done"
                     /\ UNCHANGED <<results, loc, i>>
              ELSE /\ results' = Recorded(results, <<i + 1, loc.a, loc.b, c, fc>>)
                   /\ IF BisectionConverged(fc, loc.a, loc.b, tolerance, fixed_digits)
                        THEN /\ outcome' = Returned
                             /\ pc' = "done"
                             /\ UNCHANGED <<loc, i>>
                        ELSE /\ loc' = Narrowed(loc, c, fc)
                             /\ i' = i + 1
                             /\ UNCHANGED <<outcome, pc>>
    /\ UNCHANGED <<method, func, dfunc, tolerance, max_iter, fixed_digits, args>>

\* the loop ran max_iter times: the raise after the loop
BisectionExhaust ==
    /\ UNCHANGED <<interpVars, fitVars, pairVars>>
    /\ pc = "loop"
    /\ method = "bisection"
    /\ ~LoopRuns(i, max_iter)
    /\ outcome' = Raised("ValueError", "Failed to converge", <<loc.a, loc.b>>)
    /\ pc' = "done"
    /\ UNCHANGED <<method, func, dfunc, tolerance, max_iter, fixed_digits, args,
                   loc, i, results, evals>>

(***************************************************************************)
(* NumericalMethods.secant                                                 *)
(***************************************************************************)
\* x^2 - 2, x - 1, the constant 1, x/1000 + 2000 (root at -2000000),
\* x^2 - 1 (roots at -1 and 1)
SecantBodies ==
    { <<RInt(1), RZero, RInt(-2)>>, <<RZero, RInt(1), RInt(-1)>>,
      <<RZero, RZero, RInt(1)>>, <<RZero, Rat(1, 1000), RInt(2000)>>,
      <<RInt(1), RZero, RInt(-1)>> }

SecantValidate(mi, tol, x0, x1) ==
    IF mi <= 0 THEN "max_iter must be positive"
    ELSE IF RLe(tol, RZero) THEN "tolerance must be positive"
    ELSE IF RLt(RAbs(RSub(x1, x0)), tol) THEN "Initial guesses must be different"
    ELSE "ok"

\* variant: the difference written as a sum
SecantUnstable_sum(fx0, fx1) == LtTiny(RAbs(RAdd(fx1, fx0)))

\* abs(fx1 - fx0) < 1e-10
SecantUnstable(fx0, fx1) == LtTiny(RAbs(RSub(fx1, fx0)))

\* x1 - fx1 * (x1 - x0) / (fx1 - fx0)
SecantNext(x0, x1, fx0, fx1) ==
    RSub(x1, RDiv(RMul(fx1, RSub(x1, x0)), RSub(fx1, fx0)))

\* variant: the step-size test left out
SecantConverged_residual(fx1, x1, x_next, tol, fd) == RLt(RAbs(fx1), tol)

\* the two return tests: abs(fx1) < tolerance, abs(x_next - x1) < 10**(-fixed_digits)
SecantConverged(fx1, x1, x_next, tol, fd) ==
    \/ RLt(RAbs(fx1), tol)
    \/ RLt(RAbs(RSub(x_next, x1)), Pow10Neg(fd))

SecantEnter ==
    /\ UNCHANGED <<interpVars, fitVars, pairVars>>
    /\ pc = "idle"
    /\ \E f \in Evaluators(SecantBodies), x0 \in Endpoints, x1 \in Endpoints,
          tol \in Tolerances, mi \in MaxIters, fd \in FixedDigits :
          LET v == SecantValidate(mi, tol, x0, x1)
          IN  /\ method' = "secant"
              /\ func' = f
              /\ tolerance' = tol
              /\ max_iter' = mi
              /\ fixed_digits' = fd
              /\ args' = <<x0, x1>>
              /\ results' = <<>>
              /\ i' = 0
              /\ evals' = 0
              /\ IF v # "ok"
                   THEN /\ outcome' = Raised("ValueError", v, <<>>)
                        /\ pc' = "done"
                        /\ loc' = <<>>
                   ELSE /\ outcome' = Running
                        /\ pc' = "loop"
                        /\ loc' = [x0 |-> x0, x1 |-> x1]
    /\ UNCHANGED dfunc

SecantStep ==
    /\ UNCHANGED <<interpVars, fitVars, pairVars>>
    /\ pc = "loop"
    /\ method = "secant"
    /\ LoopRuns(i, max_iter)
    /\ LET r0 == Call(func, loc.x0)
           r1 == Call(func, loc.x1)
           fx0 == r0.val
           fx1 == r1.val
           x_next == SecantNext(loc.x0, loc.x1, fx0, fx1)
       IN  IF r0.exc # "none"
             THEN /\ outcome' = Raised(r0.exc, "raised by func", <<loc.x0>>)
                  /\ pc' = "done"
                  /\ evals' = evals + 1
                  /\ UNCHANGED <<results, loc, i>>
           ELSE IF r1.exc # "none"
             THEN /\ outcome' = Raised(r1.exc, "raised by func", <<loc.x1>>)
                  /\ pc' = "done"
                  /\ evals' = evals + 2
                  /\ UNCHANGED <<results, loc, i>>
           ELSE IF SecantUnstable(fx0, fx1)
             THEN /\ outcome' = Raised("ValueError",
                                       "Denominator too close to zero", <<i + 1>>)
                  /\ pc' = "done"
                  /\ evals' = evals + 2
                  /\ UNCHANGED <<results, loc, i>>
           ELSE IF fx1 = fx0
             \* the float division of line 133 by a zero that passed line 128
             THEN /\ outcome' = Raised("ZeroDivisionError", "float division by zero",
                                       <<i + 1>>)
                  /\ pc' = "done"
                  /\ evals' = evals + 2
                  /\ UNCHANGED <<results, loc, i>>
           ELSE /\ evals' = evals + 2
                /\ results' = Recorded(results, <<i + 1, loc.x0, loc.x1, x_next, fx1>>)
                /\ IF SecantConverged(fx1, loc.x1, x_next, tolerance, fixed_digits)
                     THEN /\ outcome' = Returned
                          /\ pc' = "done"
                          /\ UNCHANGED <<loc, i>>
                   ELSE IF GtDivergeLimit(x_next)
                     THEN /\ outcome' = Raised("ValueError", "Solution diverging",
                                               <<i + 1>>)
                          /\ pc' = "done"
                          /\ UNCHANGED <<loc, i>>
                   ELSE /\ loc' = [x0 |-> loc.x1, x1 |-> x_next]
                        /\ i' = i + 1
                        /\ UNCHANGED <<outcome, pc>>
    /\ UNCHANGED <<method, func, dfunc, tolerance, max_iter, fixed_digits, args>>

SecantExhaust ==
    /\ UNCHANGED <<interpVars, fitVars, pairVars>>
    /\ pc = "loop"
    /\ method = "secant"
    /\ ~LoopRuns(i, max_iter)
    /\ outcome' = Raised("ValueError", "Failed to converge", <<loc.x1>>)
    /\ pc' = "done"
    /\ UNCHANGED <<method, func, dfunc, tolerance, max_iter, fixed_digits, args,
                   loc, i, results, evals>>

(***************************************************************************)
(* NumericalMethods.simple_iteration                                       *)
(***************************************************************************)
\* x/2 + 1, -x, 10x, x + 1
SimpleBodies ==
    { <<RZero, Rat(1, 2), RInt(1)>>, <<RZero, RInt(-1), RZero>>,
      <<RZero, RInt(10), RZero>>, <<RZero, RInt(1), RInt(1)>> }
SimpleStarts == { RInt(-1), RInt(0), RInt(1), RInt(200000), RInt(2000000) }

SimpleValidate(mi, tol) ==
    IF mi <= 0 THEN "max_iter must be positive"
    ELSE IF RLe(tol, RZero) THEN "tolerance must be positive"
    ELSE "ok"

\* the exception types of `except (ValueError, ZeroDivisionError)`
SimpleCaught == {"ValueError", "ZeroDivisionError"}

\* rel_error < 10**(-fixed_digits), rel_error = abs_error / (abs(x_next) + 1e-10),
\* for fixed_digits >= 0: with P = 10**(-fixed_digits) <= 1 the test is
\* abs_error - P * abs(x_next) < P * 1e-10, and the left side is a rational of
\* the model, which is below P * 1e-10 <= 1e-10 exactly when it is <= 0.
RelErrorBelow(abs_error, x_next, fd) ==
    LtTiny(RSub(abs_error, RMul(Pow10Neg(fd), RAbs(x_next))))

\* abs_error < tolerance or rel_error < 10**(-fixed_digits)
SimpleConverged(x, x_next, tol, fd) ==
    LET abs_error == RAbs(RSub(x_next, x))
    IN  \/ RLt(abs_error, tol)
        \/ RelErrorBelow(abs_error, x_next, fd)

\* results[-4:]
LastFour(res) ==
    IF Len(res) <= 4 THEN res ELSE SubSeq(res, Len(res) - 3, Len(res))

\* variant: the check starting one pass later, i > 5
SimpleOscillating_late(k, res) ==
    /\ k > 5
    /\ Cardinality({ LastFour(res)[j][2] : j \in 1 .. Len(LastFour(res)) }) <= 2

\* i > 4 and len(set(result[1] for result in results[-4:])) <= 2
SimpleOscillating(k, res) ==
    /\ k > 4
    /\ Cardinality({ LastFour(res)[j][2] : j \in 1 .. Len(LastFour(res)) }) <= 2

SimpleEnter ==
    /\ UNCHANGED <<interpVars, fitVars, pairVars>>
    /\ pc = "idle"
    /\ \E f \in Evaluators(SimpleBodies), x0 \in SimpleStarts,
          tol \in Tolerances, mi \in 0 .. MaxIterSimple, fd \in FixedDigits :
          LET v == SimpleValidate(mi, tol)
          IN  /\ method' = "simple_iteration"
              /\ func' = f
              /\ tolerance' = tol
              /\ max_iter' = mi
              /\ fixed_digits' = fd
              /\ args' = <<x0>>
              /\ results' = <<>>
              /\ i' = 0
              /\ evals' = 0
              /\ IF v # "ok"
                   THEN /\ outcome' = Raised("ValueError", v, <<>>)
                        /\ pc' = "done"
                        /\ loc' = <<>>
                   ELSE /\ outcome' = Running
                        /\ pc' = "loop"
                        /\ loc' = [x |-> x0, x_next |-> x0]
    /\ UNCHANGED dfunc

SimpleStep ==
    /\ UNCHANGED <<interpVars, fitVars, pairVars>>
    /\ pc = "loop"
    /\ method = "simple_iteration"
    /\ LoopRuns(i, max_iter)
    /\ LET r == Call(func, loc.x)
           x_next == r.val
           res == Recorded(results, <<i + 1, loc.x, x_next>>)
       IN  /\ evals' = evals + 1
           /\ IF r.exc \in SimpleCaught
                THEN /\ outcome' = Raised("ValueError", "Error in iteration function",
                                          <<loc.x, r.exc>>)
                     /\ pc' = "done"
                     /\ UNCHANGED <<results, loc, i>>
              ELSE IF r.exc # "none"
                THEN /\ outcome' = Raised(r.exc, "raised by func", <<loc.x>>)
                     /\ pc' = "done"
                     /\ UNCHANGED <<results, loc, i>>
              ELSE /\ results' = res
                   /\ IF SimpleConverged(loc.x, x_next, tolerance, fixed_digits)
                        THEN /\ outcome' = Returned
                             /\ pc' = "done"
                             /\ UNCHANGED <<loc, i>>
                      ELSE IF GtDivergeLimit(x_next)
                        THEN /\ outcome' = Raised("ValueError", "Solution diverging",
                                                  <<i + 1, loc.x, x_next>>)
                             /\ pc' = "done"
                             /\ UNCHANGED <<loc, i>>
                      ELSE IF SimpleOscillating(i, res)
                        THEN /\ outcome' = Raised("ValueError",
                                                  "Method appears to be oscillating",
                                                  <<i + 1>>)
                             /\ pc' = "done"
                             /\ UNCHANGED <<loc, i>>
                      ELSE /\ loc' = [x |-> x_next, x_next |-> x_next]
                           /\ i' = i + 1
                           /\ UNCHANGED <<outcome, pc>>
    /\ UNCHANGED <<method, func, dfunc, tolerance, max_iter, fixed_digits, args>>

SimpleExhaust ==
    /\ UNCHANGED <<interpVars, fitVars, pairVars>>
    /\ pc = "loop"
    /\ method = "simple_iteration"
    /\ ~LoopRuns(i, max_iter)
    /\ outcome' = Raised("ValueError", "Failed to converge", <<loc.x, loc.x_next>>)
    /\ pc' = "done"
    /\ UNCHANGED <<method, func, dfunc, tolerance, max_iter, fixed_digits, args,
                   loc, i, results, evals>>

(***************************************************************************)
(* NewtonRaphsonSolver.solve                                               *)
(***************************************************************************)
\* x^2 - 2, x - 1, x^2, x^2 + 1, x/1000 + 2000, the constant 1e-5
NewtonBodies ==
    { <<RInt(1), RZero, RInt(-2)>>, <<RZero, RInt(1), RInt(-1)>>,
      <<RInt(1), RZero, RZero>>, <<RInt(1), RZero, RInt(1)>>,
      <<RZero, Rat(1, 1000), RInt(2000)>>, <<RZero, RZero, Rat(1, 100000)>> }
NewtonStarts == { RInt(0), RInt(1), RInt(2) }
NewtonTolerances == Tolerances \cup { Rat(1, 1000000) }
DerivGuards == { <<"all", "none">>, <<"nonzero", "ZeroDivisionError">> }

\* the derivative of the polynomial c, as the caller supplies it
Deriv(c) == <<RZero, RMul(RInt(2), c[1]), c[2]>>

\* A callable whose values are its polynomial times 10^-e.  The derivative
\* expression is free text of the caller, and a value between 0 and 1e-10 is
\* no rational of the model: the derivatives `lambda x: 1e-11` and
\* `lambda x: -1e-11` are the constants 1 and -1 with e = 11.
Scaled(f, e) ==
    [c2 |-> f.c2, c1 |-> f.c1, c0 |-> f.c0, dom |-> f.dom, exc |-> f.exc, e |-> e]
Exponent(f) == IF "e" \in DOMAIN f THEN f.e ELSE 0
TinyDerivs == { Scaled(Evaluator(RZero, RZero, RInt(sg), "all", "none"), 11) :
                   sg \in { 1, -1 } }

\* dfx = dfunc(x) where dfunc does not raise: the value v * 10^-e
DerivValue(f, x) == [v |-> Value(f, x), e |-> Exponent(f)]

\* abs(dfx) < 1e-10 (e is 0 or at least 10)
FlatDerivative(dfx) ==
    IF dfx.e = 0 THEN LtTiny(RAbs(dfx.v))
                 ELSE RLt(RAbs(dfx.v), RInt(IPow10(dfx.e - 10)))

\* variant: the nudge added without the sign, dfx + 1e-10
NudgedDerivative_unsigned(dfx) ==
    IF dfx.v = RZero THEN [v |-> RInt(1), e |-> 10]
    ELSE [v |-> RAdd(dfx.v, RInt(IPow10(dfx.e - 10))), e |-> dfx.e]

\* dfx + np.sign(dfx) * 1e-10 if dfx != 0 else 1e-10, for a flat dfx
NudgedDerivative(dfx) ==
    IF dfx.v = RZero THEN [v |-> RInt(1), e |-> 10]
    ELSE [v |-> RAdd(dfx.v, RInt(RSign(dfx.v) * IPow10(dfx.e - 10))), e |-> dfx.e]

\* the derivative the step divides by (lines 64-70)
DerivativeUsed(dfx) ==
    IF FlatDerivative(dfx) THEN NudgedDerivative(dfx) ELSE dfx

\* g * 10^e for e in {0, 10, 11}, multiplied in two factors that cancel
\* against the denominator of g
ScaleUp(g, e) ==
    IF e = 0 THEN g ELSE RMul(RMul(g, RInt(100000)), RInt(IPow10(e - 5)))

\* the step fx / dfx = g * 10^e is beyond 1e7 in magnitude: abs(g) > 1e-3
\* and e >= 10.  Such a step is not computed: it is kept as g with the
\* factor 10^e marked.
StepHuge(g, e) == e >= 10 /\ IAbs(g.n) > g.d \div 1000
TimesPow10(p, e) == [n |-> p.n, d |-> p.d, e |-> e]

\* variant: the step added, x + fx / dfx
NewtonNext_added(x, fx, dfx) ==
    LET w == DerivativeUsed(dfx)
    IN  RAdd(x, ScaleUp(RDiv(fx, w.v), w.e))

\* x_next = x - fx / dfx
NewtonNext(x, fx, dfx) ==
    LET w == DerivativeUsed(dfx)
    IN  RSub(x, ScaleUp(RDiv(fx, w.v), w.e))
\* error = abs(x_next - x)
NewtonError(x, fx, dfx) ==
    LET w == DerivativeUsed(dfx)
        g == RDiv(fx, w.v)
    IN  IF StepHuge(g, w.e) THEN TimesPow10(RAbs(g), w.e)
                            ELSE RAbs(ScaleUp(g, w.e))

\* error < tolerance; a marked step is beyond 1e7 and the tolerances of the
\* model are below 1
ErrorBelow(error, tol) ==
    IF "e" \in DOMAIN error THEN FALSE ELSE RLt(error, tol)

\* abs(fx) < tolerance or error < tolerance
NewtonConverged(fx, error, tol) ==
    \/ RLt(RAbs(fx), tol)
    \/ ErrorBelow(error, tol)

\* abs(x_next) > 1e6; a step beyond 1e7 from an x within 1e6 lands beyond 1e6
NewtonDiverging(x, fx, dfx) ==
    LET w == DerivativeUsed(dfx)
    IN  IF StepHuge(RDiv(fx, w.v), w.e) /\ ~GtDivergeLimit(x)
          THEN TRUE
          ELSE GtDivergeLimit(NewtonNext(x, fx, dfx))

\* solve has no argument checks: the call only sets x and results
NewtonEnter ==
    /\ UNCHANGED <<interpVars, fitVars, pairVars>>
    /\ pc = "idle"
    /\ \E c \in NewtonBodies, g \in Guards, dg \in DerivGuards, x0 \in NewtonStarts,
          tol \in NewtonTolerances, mi \in MaxIters :
          /\ method' = "newton"
          /\ func' = Evaluator(c[1], c[2], c[3], g[1], g[2])
          /\ dfunc' \in { Evaluator(Deriv(c)[1], Deriv(c)[2], Deriv(c)[3], dg[1], dg[2]) }
                          \cup TinyDerivs
          /\ tolerance' = tol
          /\ max_iter' = mi
          /\ args' = <<x0>>
          /\ loc' = [x |-> x0]
    /\ results' = <<>>
    /\ i' = 0
    /\ evals' = 0
    /\ outcome' = Running
    /\ pc' = "loop"
    /\ UNCHANGED fixed_digits

\* variant: the message built with {i} for {i + 1}
NewtonWrapped_zero_based(k, cause) ==
    Raised("ValueError", "Error in iteration", <<k - 1, cause>>)

\* `except Exception as e: raise ValueError(f"Error in iteration {i + 1}: ...")`
NewtonWrapped(k, cause) == Raised("ValueError", "Error in iteration", <<k, cause>>)

NewtonStep ==
    /\ UNCHANGED <<interpVars, fitVars, pairVars>>
    /\ pc = "loop"
    /\ method = "newton"
    /\ LoopRuns(i, max_iter)
    /\ LET rf == Call(func, loc.x)
           rd == Call(dfunc, loc.x)
           fx == rf.val
           dfx == [v |-> rd.val, e |-> Exponent(dfunc)]
           error == NewtonError(loc.x, fx, dfx)
       IN  IF rf.exc # "none"
             THEN /\ outcome' = NewtonWrapped(i + 1, rf.exc)
                  /\ pc' = "done"
                  /\ evals' = evals + 1
                  /\ UNCHANGED <<results, loc, i>>
           ELSE IF rd.exc # "none"
             THEN /\ outcome' = NewtonWrapped(i + 1, rd.exc)
                  /\ pc' = "done"
                  /\ evals' = evals + 2
                  /\ UNCHANGED <<results, loc, i>>
           ELSE IF FlatDerivative(dfx) /\ RLt(RAbs(fx), tolerance)
             THEN /\ results' = Recorded(results, <<i + 1, loc.x, fx, RZero>>)
                  /\ outcome' = Returned
                  /\ pc' = "done"
                  /\ evals' = evals + 2
                  /\ UNCHANGED <<loc, i>>
           ELSE /\ evals' = evals + 2
                /\ results' = Recorded(results, <<i + 1, loc.x, fx, error>>)
                /\ IF NewtonConverged(fx, error, tolerance)
                     THEN /\ outcome' = Returned
                          /\ pc' = "done"
                          /\ UNCHANGED <<loc, i>>
                   ELSE IF NewtonDiverging(loc.x, fx, dfx)
                     THEN /\ outcome' = NewtonWrapped(i + 1, "Method diverging")
                          /\ pc' = "done"
                          /\ UNCHANGED <<loc, i>>
                   ELSE /\ loc' = [x |-> NewtonNext(loc.x, fx, dfx)]
                        /\ i' = i + 1
                        /\ UNCHANGED <<outcome, pc>>
    /\ UNCHANGED <<method, func, dfunc, tolerance, max_iter, fixed_digits, args>>

NewtonExhaust ==
    /\ UNCHANGED <<interpVars, fitVars, pairVars>>
    /\ pc = "loop"
    /\ method = "newton"
    /\ ~LoopRuns(i, max_iter)
    /\ outcome' = Raised("ValueError", "Failed to converge", <<max_iter>>)
    /\ pc' = "done"
    /\ UNCHANGED <<method, func, dfunc, tolerance, max_iter, fixed_digits, args,
                   loc, i, results, evals>>

NextRoot ==
    \/ BisectionEnter
    \/ BisectionStep
    \/ BisectionExhaust
    \/ SecantEnter
    \/ SecantStep
    \/ SecantExhaust
    \/ SimpleEnter
    \/ SimpleStep
    \/ SimpleExhaust
    \/ NewtonEnter
    \/ NewtonStep
    \/ NewtonExhaust

SpecRoot == Init /\ [][NextRoot]_vars

(***************************************************************************)
(* Two solver calls in flight at once.  The solvers are static methods     *)
(* that read and write nothing but their arguments and local variables,    *)
(* so a call is its frame.  One call runs (its frame is the solver          *)
(* variables above), the other is suspended (parked); the scheduler may    *)
(* switch between any two steps.                                           *)
(***************************************************************************)
\* the frame of the running call
CallFrame ==
    Frame(method, func, dfunc, tolerance, max_iter, fixed_digits, args, loc, i,
          results, pc, outcome, evals)

\* a frame whose call ended with the outcome o
Ended(fr, o) == [fr EXCEPT !.outcome = o, !.pc = "done"]

\* One call run on its own: the loop of each solver as a function of the
\* frame (the same statements as in the step actions above).
BisectionPass(fr) ==
    LET c   == Midpoint(fr.loc.a, fr.loc.b)
        rc  == Call(fr.func, c)
        fc  == rc.val
        rec == Recorded(fr.results, <<fr.i + 1, fr.loc.a, fr.loc.b, c, fc>>)
    IN  IF ~LoopRuns(fr.i, fr.max_iter)
          THEN Ended(fr, Raised("ValueError", "Failed to converge",
                                <<fr.loc.a, fr.loc.b>>))
        ELSE IF rc.exc # "none"
          THEN [Ended(fr, Raised(rc.exc, "raised by func", <<c>>))
                  EXCEPT !.evals = @ + 1]
        ELSE IF BisectionConverged(fc, fr.loc.a, fr.loc.b, fr.tolerance,
                                   fr.fixed_digits)
          THEN [Ended(fr, Returned) EXCEPT !.results = rec, !.evals = @ + 1]
        ELSE [fr EXCEPT !.results = rec, !.evals = @ + 1, !.i = @ + 1,
                        !.loc = Narrowed(fr.loc, c, fc)]

SecantPass(fr) ==
    LET r0  == Call(fr.func, fr.loc.x0)
        r1  == Call(fr.func, fr.loc.x1)
        fx0 == r0.val
        fx1 == r1.val
        x_next == SecantNext(fr.loc.x0, fr.loc.x1, fx0, fx1)
        rec == Recorded(fr.results, <<fr.i + 1, fr.loc.x0, fr.loc.x1, x_next, fx1>>)
    IN  IF ~LoopRuns(fr.i, fr.max_iter)
          THEN Ended(fr, Raised("ValueError", "Failed to converge", <<fr.loc.x1>>))
        ELSE IF r0.exc # "none"
          THEN [Ended(fr, Raised(r0.exc, "raised by func", <<fr.loc.x0>>))
                  EXCEPT !.evals = @ + 1]
        ELSE IF r1.exc # "none"
          THEN [Ended(fr, Raised(r1.exc, "raised by func", <<fr.loc.x1>>))
                  EXCEPT !.evals = @ + 2]
        ELSE IF SecantUnstable(fx0, fx1)
          THEN [Ended(fr, Raised("ValueError", "Denominator too close to zero",
                                 <<fr.i + 1>>))
                  EXCEPT !.evals = @ + 2]
        ELSE IF fx1 = fx0
          THEN [Ended(fr, Raised("ZeroDivisionError", "float division by zero",
                                 <<fr.i + 1>>))
                  EXCEPT !.evals = @ + 2]
        ELSE IF SecantConverged(fx1, fr.loc.x1, x_next, fr.tolerance, fr.fixed_digits)
          THEN [Ended(fr, Returned) EXCEPT !.results = rec, !.evals = @ + 2]
        ELSE IF GtDivergeLimit(x_next)
          THEN [Ended(fr, Raised("ValueError", "Solution diverging", <<fr.i + 1>>))
                  EXCEPT !.results = rec, !.evals = @ + 2]
        ELSE [fr EXCEPT !.results = rec, !.evals = @ + 2, !.i = @ + 1,
                        !.loc = [x0 |-> fr.loc.x1, x1 |-> x_next]]

SimplePass(fr) ==
    LET r   == Call(fr.func, fr.loc.x)
        x_next == r.val
        rec == Recorded(fr.results, <<fr.i + 1, fr.loc.x, x_next>>)
    IN  IF ~LoopRuns(fr.i, fr.max_iter)
          THEN Ended(fr, Raised("ValueError", "Failed to converge",
                                <<fr.loc.x, fr.loc.x_next>>))
        ELSE IF r.exc \in SimpleCaught
          THEN [Ended(fr, Raised("ValueError", "Error in iteration function",
                                 <<fr.loc.x, r.exc>>))
                  EXCEPT !.evals = @ + 1]
        ELSE IF r.exc # "none"
          THEN [Ended(fr, Raised(r.exc, "raised by func", <<fr.loc.x>>))
                  EXCEPT !.evals = @ + 1]
        ELSE IF SimpleConverged(fr.loc.x, x_next, fr.tolerance, fr.fixed_digits)
          THEN [Ended(fr, Returned) EXCEPT !.results = rec, !.evals = @ + 1]
        ELSE IF GtDivergeLimit(x_next)
          THEN [Ended(fr, Raised("ValueError", "Solution diverging",
                                 <<fr.i + 1, fr.loc.x, x_next>>))
                  EXCEPT !.results = rec, !.evals = @ + 1]
        ELSE IF SimpleOscillating(fr.i, rec)
          THEN [Ended(fr, Raised("ValueError", "Method appears to be oscillating",
                                 <<fr.i + 1>>))
                  EXCEPT !.results = rec, !.evals = @ + 1]
        ELSE [fr EXCEPT !.results = rec, !.evals = @ + 1, !.i = @ + 1,
                        !.loc = [x |-> x_next, x_next |-> x_next]]

NewtonPass(fr) ==
    LET rf  == Call(fr.func, fr.loc.x)
        rd  == Call(fr.dfunc, fr.loc.x)
        fx  == rf.val
        dfx == [v |-> rd.val, e |-> Exponent(fr.dfunc)]
        error == NewtonError(fr.loc.x, fx, dfx)
        rec == Recorded(fr.results, <<fr.i + 1, fr.loc.x, fx, error>>)
    IN  IF ~LoopRuns(fr.i, fr.max_iter)
          THEN Ended(fr, Raised("ValueError", "Failed to converge", <<fr.max_iter>>))
        ELSE IF rf.exc # "none"
          THEN [Ended(fr, NewtonWrapped(fr.i + 1, rf.exc)) EXCEPT !.evals = @ + 1]
        ELSE IF rd.exc # "none"
          THEN [Ended(fr, NewtonWrapped(fr.i + 1, rd.exc)) EXCEPT !.evals = @ + 2]
        ELSE IF FlatDerivative(dfx) /\ RLt(RAbs(fx), fr.tolerance)
          THEN [Ended(fr, Returned)
                  EXCEPT !.results = Recorded(fr.results,
                                              <<fr.i + 1, fr.loc.x, fx, RZero>>),
                         !.evals = @ + 2]
        ELSE IF NewtonConverged(fx, error, fr.tolerance)
          THEN [Ended(fr, Returned) EXCEPT !.results = rec, !.evals = @ + 2]
        ELSE IF NewtonDiverging(fr.loc.x, fx, dfx)
          THEN [Ended(fr, NewtonWrapped(fr.i + 1, "Method diverging"))
                  EXCEPT !.results = rec, !.evals = @ + 2]
        ELSE [fr EXCEPT !.results = rec, !.evals = @ + 2, !.i = @ + 1,
                        !.loc = [x |-> NewtonNext(fr.loc.x, fx, dfx)]]

Pass(fr) ==
    IF fr.method = "bisection" THEN BisectionPass(fr)
    ELSE IF fr.method = "secant" THEN SecantPass(fr)
    ELSE IF fr.method = "simple_iteration" THEN SimplePass(fr)
    ELSE NewtonPass(fr)

\* the frame in which the call of fr ends when nothing else runs
RECURSIVE RunAlone(_)
RunAlone(fr) == IF fr.pc # "loop" THEN fr ELSE RunAlone(Pass(fr))

\* variant: the list of records kept in one place for all calls
ResumedResults_shared(fr) == results

\* the list `results` of a resumed call is the list that call created
ResumedResults(fr) == fr.results

\* the scheduler suspends the running call and resumes the other
Switch ==
    /\ UNCHANGED <<interpVars, fitVars>>
    /\ parked.pc # "done" \/ pc # "done"
    /\ parked' = CallFrame
    /\ active' = 3 - active
    /\ method' = parked.method
    /\ func' = parked.func
    /\ dfunc' = parked.dfunc
    /\ tolerance' = parked.tolerance
    /\ max_iter' = parked.max_iter
    /\ fixed_digits' = parked.fixed_digits
    /\ args' = parked.args
    /\ loc' = parked.loc
    /\ i' = parked.i
    /\ results' = ResumedResults(parked)
    /\ pc' = parked.pc
    /\ outcome' = parked.outcome
    /\ evals' = parked.evals

\* the calls made while two are in flight
PairInputs ==
    /\ tolerance = Rat(1, 10)
    /\ max_iter = MaxIter
    /\ method = "newton" \/ fixed_digits = 1
    /\ func.dom \in { "all", "nonzero" }
    /\ dfunc.dom = "all"
    /\ Exponent(dfunc) = 0
    /\ \A k \in 1 .. Len(args) : args[k] \in { RInt(0), RInt(2) }
PairBisection == BisectionEnter /\ PairInputs'
PairSecant == SecantEnter /\ PairInputs'
PairSimple == SimpleEnter /\ PairInputs'
PairNewton == NewtonEnter /\ PairInputs'

NextPair ==
    \/ PairBisection
    \/ BisectionStep
    \/ BisectionExhaust
    \/ PairSecant
    \/ SecantStep
    \/ SecantExhaust
    \/ PairSimple
    \/ SimpleStep
    \/ SimpleExhaust
    \/ PairNewton
    \/ NewtonStep
    \/ NewtonExhaust
    \/ Switch

SpecPair == Init /\ [][NextPair]_vars

(***************************************************************************)
(* InterpolationMethods (interpolation/mainInterpolation.py).  Sequences   *)
(* are indexed from 1 here and from 0 in the source.                       *)
(***************************************************************************)
InterpXs == { RInt(k) : k \in 0 .. 3 }
InterpYs == { RInt(-1), RInt(2) }
InterpAt == InterpXs \cup { Rat(3, 2) }

\* the inner loop of lagrange_interpolation: term after the factors j .. n
RECURSIVE LagrangeTerm(_, _, _, _, _)
LagrangeTerm(xp, x, k, j, term) ==
    IF j > Len(xp) THEN term
    ELSE LagrangeTerm(xp, x, k, j + 1,
           IF k # j
             THEN FMul(term, FDiv(FSub(x, xp[j]), FSub(xp[k], xp[j])))
             ELSE term)

\* the outer loop: result after the terms k .. n
RECURSIVE LagrangeSum(_, _, _, _, _)
LagrangeSum(xp, yp, x, k, result) ==
    IF k > Len(xp) THEN result
    ELSE LagrangeSum(xp, yp, x, k + 1,
           FAdd(result, LagrangeTerm(xp, x, k, 1, yp[k])))

lagrange_interpolation(xp, yp, x) == LagrangeSum(xp, yp, x, 1, RZero)

\* variant: every difference divided by the gap of adjacent nodes
DividedDifferences_adjacent(xp, yp) ==
    LET n == Len(xp)
        coef[r \in 0 .. n - 1, c \in 0 .. n - 1] ==
            IF c = 0 THEN yp[r + 1]
            ELSE IF r + c >= n THEN RZero
            ELSE FDiv(FSub(coef[r + 1, c - 1], coef[r, c - 1]),
                      FSub(xp[r + 2], xp[r + 1]))
    IN  coef

\* the table coef of newton_divided_difference: coef[r][c] for rows and
\* columns 0 .. n-1, zero where the loops leave np.zeros untouched
DividedDifferences(xp, yp) ==
    LET n == Len(xp)
        coef[r \in 0 .. n - 1, c \in 0 .. n - 1] ==
            IF c = 0 THEN yp[r + 1]
            ELSE IF r + c >= n THEN RZero
            ELSE FDiv(FSub(coef[r + 1, c - 1], coef[r, c - 1]),
                      FSub(xp[r + c + 1], xp[r + 1]))
    IN  coef

\* variant: mult *= (x - x_points[j]), one node too far
RECURSIVE NewtonSum_shifted(_, _, _, _, _, _)
NewtonSum_shifted(xp, coef, x, c, mult, result) ==
    IF c > Len(xp) - 1 THEN result
    ELSE LET m == FMul(mult, FSub(x, xp[c + 1]))
         IN  NewtonSum_shifted(xp, coef, x, c + 1, m,
                               FAdd(result, FMul(coef[0, c], m)))

\* the interpolation loop: result and mult after the columns c .. n-1
RECURSIVE NewtonSum(_, _, _, _, _, _)
NewtonSum(xp, coef, x, c, mult, result) ==
    IF c > Len(xp) - 1 THEN result
    ELSE LET m == FMul(mult, FSub(x, xp[c]))
         IN  NewtonSum(xp, coef, x, c + 1, m, FAdd(result, FMul(coef[0, c], m)))

newton_divided_difference(xp, yp, x) ==
    LET coef == DividedDifferences(xp, yp)
    IN  <<NewtonSum(xp, coef, x, 1, RInt(1), coef[0, 0]), coef>>

\* the user fills the points table and the evaluation point
EnterPoints ==
    /\ x_points = <<>>
    /\ \E n \in 1 .. MaxPoints :
         \E xp \in [1 .. n -> InterpXs], yp \in [1 .. n -> InterpYs] :
            /\ x_points' = xp
            /\ y_points' = yp
    /\ x_interp' \in InterpAt
    /\ UNCHANGED <<lagrange, newton, details>>
    /\ UNCHANGED <<rootVars, fitVars, pairVars>>

\* perform_interpolation with the method "Lagrange"
PerformLagrange ==
    /\ x_points # <<>>
    /\ lagrange = <<>>
    /\ lagrange' = <<lagrange_interpolation(x_points, y_points, x_interp)>>
    /\ UNCHANGED <<x_points, y_points, x_interp, newton, details>>
    /\ UNCHANGED <<rootVars, fitVars, pairVars>>

\* perform_interpolation with the method "Newton"
PerformNewton ==
    /\ x_points # <<>>
    /\ newton = <<>>
    /\ newton' = newton_divided_difference(x_points, y_points, x_interp)
    /\ UNCHANGED <<x_points, y_points, x_interp, lagrange, details>>
    /\ UNCHANGED <<rootVars, fitVars, pairVars>>

(***************************************************************************)
(* NewtonDetails (interpolation/moreDetails.py)                            *)
(***************************************************************************)
\* np.zeros((n, n))
ZeroTable(n) == [r \in 0 .. n - 1, c \in 0 .. n - 1 |-> RZero]
\* table[:,0] = self.y_points
FirstColumn(t, yp) ==
    [rc \in DOMAIN t |-> IF rc[2] = 0 THEN yp[rc[1] + 1] ELSE t[rc]]

\* the loops `for j in range(1, n): for i in range(n - j)`: the table after
\* the assignments from (r, j) on
RECURSIVE DetailsFill(_, _, _, _)
DetailsFill(xp, t, j, r) ==
    IF j > Len(xp) - 1 THEN t
    ELSE IF r > Len(xp) - j - 1 THEN DetailsFill(xp, t, j + 1, 0)
    ELSE DetailsFill(xp,
                     [t EXCEPT ![r, j] = FDiv(FSub(t[r + 1, j - 1], t[r, j - 1]),
                                              FSub(xp[r + j + 1], xp[r + 1]))],
                     j, r + 1)

\* variant: the loop over the columns begun at j = 2
compute_divided_difference_table_late(xp, yp) ==
    DetailsFill(xp, FirstColumn(ZeroTable(Len(xp)), yp), 2, 0)

\* NewtonDetails._compute_divided_difference_table
compute_divided_difference_table(xp, yp) ==
    DetailsFill(xp, FirstColumn(ZeroTable(Len(xp)), yp), 1, 0)

\* show_details with the method "Newton": NewtonDetails(x_points, y_points)
ShowNewtonDetails ==
    /\ x_points # <<>>
    /\ details = <<>>
    /\ details' = <<compute_divided_difference_table(x_points, y_points)>>
    /\ UNCHANGED <<x_points, y_points, x_interp, lagrange, newton>>
    /\ UNCHANGED <<rootVars, fitVars, pairVars>>

NextInterp ==
    \/ EnterPoints
    \/ PerformLagrange
    \/ PerformNewton
    \/ ShowNewtonDetails

SpecInterp == Init /\ [][NextInterp]_vars

(***************************************************************************)
(* CurveFittingCalculator (curveFitting.py).  The table of the program has *)
(* 10 rows; the model keeps MaxPoints of them.  A cell holds a text that   *)
(* float() parses to a number, or one it rejects with ValueError; a row    *)
(* whose cells are empty or whose box is unchecked is skipped.             *)
(***************************************************************************)
Num(v) == [parses |-> TRUE, val |-> v]
Junk == [parses |-> FALSE, val |-> RZero]
FitXCells == { Num(RInt(k)) : k \in 0 .. 2 } \cup { Junk }
FitYCells == { Num(RInt(1)), Num(RInt(2)), Num(RInt(5)), Junk }
SkippedRow == [use |-> FALSE, x |-> Junk, y |-> Junk]
Rows == { [use |-> TRUE, x |-> cx, y |-> cy] : cx \in FitXCells, cy \in FitYCells }
          \cup { SkippedRow }

\* the loop of get_table_data over the rows k .. n: x is appended before y
\* is parsed, and a ValueError of either float() skips the rest of the row
RECURSIVE CollectRows(_, _, _)
CollectRows(t, k, data) ==
    IF k > Len(t) THEN data
    ELSE LET row == t[k]
         IN  CollectRows(t, k + 1,
               IF ~row.use \/ ~row.x.parses THEN data
               ELSE IF ~row.y.parses
                 THEN [data EXCEPT !.x = Append(@, row.x.val)]
               ELSE [x |-> Append(data.x, row.x.val),
                     y |-> Append(data.y, row.y.val)])

\* get_table_data: the DataFrame, or the ValueError pd.DataFrame raises for
\* columns of different lengths
get_table_data(t) ==
    LET data == CollectRows(t, 1, [x |-> <<>>, y |-> <<>>])
    IN  IF Len(data.x) = Len(data.y)
          THEN [exc |-> "none", df |-> data]
          ELSE [exc |-> "ValueError", df |-> data]

\* sum of f(k) for k in 1 .. n
RECURSIVE SumTo(_, _)
SumTo(f, n) == IF n = 0 THEN RZero ELSE RAdd(SumTo(f, n - 1), f[n])

RPow(v, e) == IF e = 0 THEN RInt(1)
              ELSE IF e = 1 THEN v
              ELSE IF e = 2 THEN RMul(v, v)
              ELSE IF e = 3 THEN RMul(v, RMul(v, v))
              ELSE RMul(RMul(v, v), RMul(v, v))

\* (df['x'] ** e * df['y'] ** ye).sum() for ye in {0, 1}
Moment(df, e, ye) ==
    SumTo([k \in 1 .. Len(df.x) |->
             RMul(RPow(df.x[k], e), IF ye = 1 THEN df.y[k] ELSE RInt(1))],
          Len(df.x))

Det2(A) == RSub(RMul(A[1][1], A[2][2]), RMul(A[1][2], A[2][1]))
Det3(A) ==
    RAdd(RSub(RMul(A[1][1], Det2(<<<<A[2][2], A[2][3]>>, <<A[3][2], A[3][3]>>>>)),
              RMul(A[1][2], Det2(<<<<A[2][1], A[2][3]>>, <<A[3][1], A[3][3]>>>>))),
         RMul(A[1][3], Det2(<<<<A[2][1], A[2][2]>>, <<A[3][1], A[3][2]>>>>)))
Det(A) == IF Len(A) = 2 THEN Det2(A) ELSE Det3(A)

\* A with column c replaced by b
WithColumn(A, c, b) ==
    [r \in 1 .. Len(A) |-> [k \in 1 .. Len(A) |-> IF k = c THEN b[r] ELSE A[r][k]]]

\* variant: a least-squares solver, which answers a singular system too
LinalgSolve_lstsq(A, b) ==
    IF Det(A) = RZero
      THEN [exc |-> "none", val |-> [c \in 1 .. Len(A) |-> RZero]]
      ELSE [exc |-> "none",
            val |-> [c \in 1 .. Len(A) |-> RDiv(Det(WithColumn(A, c, b)), Det(A))]]

\* np.linalg.solve(A, b) in exact arithmetic: LinAlgError for a singular A,
\* else the solution (Cramer's rule)
LinalgSolve(A, b) ==
    IF Det(A) = RZero
      THEN [exc |-> "LinAlgError", val |-> <<>>]
      ELSE [exc |-> "none",
            val |-> [c \in 1 .. Len(A) |-> RDiv(Det(WithColumn(A, c, b)), Det(A))]]

\* variant: the right-hand side built as [sum_xy, sum_y]
calculate_first_degree_rhs(df) ==
    LET n == RInt(Len(df.x))
        sum_x == Moment(df, 1, 0)
        sum_y == Moment(df, 0, 1)
        sum_xy == Moment(df, 1, 1)
        sum_x2 == Moment(df, 2, 0)
    IN  LinalgSolve(<< <<n, sum_x>>, <<sum_x, sum_x2>> >>, <<sum_xy, sum_y>>)

\* returns (a0, a1)
calculate_first_degree(df) ==
    LET n == RInt(Len(df.x))
        sum_x == Moment(df, 1, 0)
        sum_y == Moment(df, 0, 1)
        sum_xy == Moment(df, 1, 1)
        sum_x2 == Moment(df, 2, 0)
    IN  LinalgSolve(<< <<n, sum_x>>, <<sum_x, sum_x2>> >>, <<sum_y, sum_xy>>)

\* returns (a0, a1, a2)
calculate_second_degree(df) ==
    LET n == RInt(Len(df.x))
        sum_x == Moment(df, 1, 0)
        sum_x2 == Moment(df, 2, 0)
        sum_x3 == Moment(df, 3, 0)
        sum_x4 == Moment(df, 4, 0)
        sum_y == Moment(df, 0, 1)
        sum_xy == Moment(df, 1, 1)
        sum_x2y == Moment(df, 2, 1)
    IN  LinalgSolve(<< <<n, sum_x, sum_x2>>,
                       <<sum_x, sum_x2, sum_x3>>,
                       <<sum_x2, sum_x3, sum_x4>> >>,
                    <<sum_y, sum_xy, sum_x2y>>)

\* variant: the guard written len(df) < 2
TooFewPoints_two(df) == Len(df.x) < 2

\* len(df) < 3
TooFewPoints(df) == Len(df.x) < 3

\* the user fills the table
FillTable ==
    /\ table = <<>>
    /\ table' \in [1 .. MaxPoints -> Rows]
    /\ UNCHANGED <<fit_call, fit_result, results_text, status, solves>>
    /\ UNCHANGED <<rootVars, interpVars, pairVars>>

\* calculate_first_degree called on the data of the table
CallFirstDegree ==
    /\ table # <<>>
    /\ fit_call = "none"
    /\ get_table_data(table).exc = "none"
    /\ fit_call' = "calculate_first_degree"
    /\ fit_result' = calculate_first_degree(get_table_data(table).df)
    /\ solves' = solves + 1
    /\ UNCHANGED <<table, results_text, status>>
    /\ UNCHANGED <<rootVars, interpVars, pairVars>>

\* calculate_second_degree called on the data of the table
CallSecondDegree ==
    /\ table # <<>>
    /\ fit_call = "none"
    /\ get_table_data(table).exc = "none"
    /\ fit_call' = "calculate_second_degree"
    /\ fit_result' = calculate_second_degree(get_table_data(table).df)
    /\ solves' = solves + 1
    /\ UNCHANGED <<table, results_text, status>>
    /\ UNCHANGED <<rootVars, interpVars, pairVars>>

\* the handler calculate_fitting
CalculateFitting ==
    /\ table # <<>>
    /\ fit_call = "none"
    /\ fit_call' = "calculate_fitting"
    /\ LET got == get_table_data(table)
           df == got.df
           r1 == calculate_first_degree(df)
           r2 == calculate_second_degree(df)
           failed == Text("Error: Unable to calculate fitting. Please check your data points.",
                          <<>>, <<>>)
       IN  IF got.exc # "none"
             \* raised before the try: the exception leaves the handler
             THEN /\ fit_result' = [exc |-> got.exc, val |-> <<>>]
                  /\ status' = "Calculating curve fitting..."
                  /\ UNCHANGED <<results_text, solves>>
           ELSE IF TooFewPoints(df)
             THEN /\ fit_result' = [exc |-> "none", val |-> <<>>]
                  /\ results_text' = Text("Please enter at least 3 valid points", <<>>, <<>>)
                  /\ status' = "Error: Insufficient data points"
                  /\ UNCHANGED solves
           ELSE IF r1.exc # "none"
             THEN /\ fit_result' = [exc |-> "none", val |-> <<>>]
                  /\ results_text' = failed
                  /\ status' = "Error: Calculation failed"
                  /\ solves' = solves + 1
           ELSE IF r2.exc # "none"
             THEN /\ fit_result' = [exc |-> "none", val |-> <<>>]
                  /\ results_text' = failed
                  /\ status' = "Error: Calculation failed"
                  /\ solves' = solves + 2
           ELSE /\ fit_result' = [exc |-> "none", val |-> <<>>]
                /\ results_text' = Text("Curve Fitting Analysis Results", r1.val, r2.val)
                /\ status' = "Calculation completed successfully"
                /\ solves' = solves + 2
    /\ UNCHANGED table
    /\ UNCHANGED <<rootVars, interpVars, pairVars>>

NextFit ==
    \/ FillTable
    \/ CallFirstDegree
    \/ CallSecondDegree
    \/ CalculateFitting

SpecFit == Init /\ [][NextFit]_vars

(***************************************************************************)
(* The error kinds of the specification, read off the raise sites.         *)
(***************************************************************************)
InvalidInputMsgs ==
    { "max_iter must be positive", "tolerance must be positive",
      "Left endpoint must be less than right endpoint",
      "Initial guesses must be different" }
IsInvalidInput(o) ==
    o.kind = "raise" /\ o.type = "ValueError" /\ o.msg \in InvalidInputMsgs
IsInvalidBracket(o) ==
    /\ o.kind = "raise" /\ o.type = "ValueError"
    /\ o.msg = "Function must have opposite signs at interval endpoints"
IsDidNotConverge(o) ==
    o.kind = "raise" /\ o.type = "ValueError" /\ o.msg = "Failed to converge"
\* the raises "Solution diverging ..." and "Method diverging ..."
IsDiverging(o) ==
    /\ o.kind = "raise" /\ o.type = "ValueError"
    /\ o.msg \in { "Solution diverging", "Method diverging" }
IsOscillating(o) ==
    /\ o.kind = "raise" /\ o.type = "ValueError"
    /\ o.msg = "Method appears to be oscillating"
\* an evaluator exception re-raised by the solver with its context
IsEvaluationError(o) ==
    /\ o.kind = "raise" /\ o.type = "ValueError"
    /\ \/ o.msg = "Error in iteration function"
       \/ o.msg = "Error in iteration" /\ o.info[2] \in ExcTypes
\* an evaluator raised during the call, wrapped or not
EvaluatorFailed(o) == o.msg = "raised by func" \/ IsEvaluationError(o)

(***************************************************************************)
(* C1.  Bisection with a >= b, or with f(a)*f(b) >= 0 (an endpoint that is *)
(* a root included), fails before any pass of the loop: the call is over   *)
(* with an error, no record exists and f was evaluated at the endpoints at *)
(* most; with valid max_iter and tolerance the error is InvalidInput for   *)
(* a >= b and InvalidBracket for the missing sign change.                  *)
(***************************************************************************)
C1_EndpointsReturn ==
    Call(func, args[1]).exc = "none" /\ Call(func, args[2]).exc = "none"
C1_NoSignChange ==
    /\ RLt(args[1], args[2])
    /\ C1_EndpointsReturn
    /\ Value(func, args[1]).n * Value(func, args[2]).n >= 0
C1_BisectionPrecondition ==
    (method = "bisection" /\ (RLe(args[2], args[1]) \/ C1_NoSignChange)) =>
        /\ pc = "done"
        /\ outcome.kind = "raise"
        /\ results = <<>>
        /\ i = 0
        /\ evals <= 2
        /\ (max_iter > 0 /\ tolerance.n > 0) =>
              IF RLe(args[2], args[1])
                THEN /\ IsInvalidInput(outcome)
                     /\ evals = 0
                ELSE IsInvalidBracket(outcome)
\* reached: a valid call whose left endpoint is a root is refused
C1_Witness ==
    /\ method = "bisection"
    /\ max_iter > 0 /\ tolerance.n > 0
    /\ C1_NoSignChange
    /\ Value(func, args[1]).n = 0
    /\ Value(func, args[2]).n # 0
    /\ IsInvalidBracket(outcome)

(***************************************************************************)
(* C2.  A returned trace ends in the step at which the method's            *)
(* convergence test held, and no other record of it satisfies the test:    *)
(* while the loop runs no record satisfies it either, so a trace is never  *)
(* returned after a step that did not converge.  The tests, on a record:   *)
(* bisection |f(c)| < tol or |b-a| < 10^-fixed_digits; secant |f(x1)| <    *)
(* tol or |x_next-x1| < 10^-fixed_digits; simple iteration |x_next-x| <    *)
(* tol or |x_next-x| < 10^-fixed_digits * (|x_next| + 1e-10); Newton       *)
(* |f(x)| < tol or error < tol.                                            *)
(***************************************************************************)
C2_Dist(p, q) == RAbs(RSub(p, q))
C2_Test(rec) ==
    CASE method = "bisection" ->
           \/ RLt(RAbs(rec[5]), tolerance)
           \/ RLt(C2_Dist(rec[3], rec[2]), Pow10Neg(fixed_digits))
      [] method = "secant" ->
           \/ RLt(RAbs(rec[5]), tolerance)
           \/ RLt(C2_Dist(rec[4], rec[3]), Pow10Neg(fixed_digits))
      [] method = "simple_iteration" ->
           \/ RLt(C2_Dist(rec[3], rec[2]), tolerance)
           \* |dx| / (|x_next| + 1e-10) < P, i.e. |dx| <= P * |x_next| for the
           \* rationals of the model (fixed_digits >= 0)
           \/ RLe(C2_Dist(rec[3], rec[2]),
                  RMul(Pow10Neg(fixed_digits), RAbs(rec[3])))
      [] method = "newton" ->
           \/ RLt(RAbs(rec[3]), tolerance)
           \/ ("e" \notin DOMAIN rec[4] /\ RLt(rec[4], tolerance))
C2_LastRecordConverged ==
    /\ outcome = Returned =>
          /\ pc = "done"
          /\ Len(results) >= 1
          /\ C2_Test(results[Len(results)])
          /\ \A k \in 1 .. Len(results) - 1 : ~C2_Test(results[k])
    /\ pc = "loop" => \A k \in 1 .. Len(results) : ~C2_Test(results[k])
\* reached: bisection returns a trace of several records whose last step
\* met the bracket-width test only
C2_Witness ==
    /\ outcome = Returned
    /\ Len(results) >= 2
    /\ method = "bisection"
    /\ ~RLt(RAbs(results[Len(results)][5]), tolerance)

(***************************************************************************)
(* C3.  A solver call with max_iter >= 1 executes at most max_iter steps   *)
(* and ends: every step of the loop either ends the call or counts one     *)
(* pass, and the count never exceeds max_iter.  The trace never holds more *)
(* than max_iter records, and a call whose max_iter steps all went by      *)
(* without convergence or a stop fails with DidNotConverge; bisection      *)
(* reports the bracket it then holds, the half of the last recorded        *)
(* bracket it narrowed to.                                                 *)
(***************************************************************************)
C3_LastBracket ==
    LET r == results[Len(results)]
    IN  { <<r[2], r[4]>>, <<r[4], r[3]>> }
C3_Bounded ==
    (method # "none" /\ max_iter >= 1) =>
        /\ i <= max_iter
        /\ Len(results) <= max_iter
        /\ evals <= 2 * max_iter + 2
        /\ (pc = "done" /\ i = max_iter) =>
              /\ IsDidNotConverge(outcome)
              /\ Len(results) = max_iter
              /\ method = "bisection" => outcome.info \in C3_LastBracket
\* every step of a running call ends the call or uses up one pass of the loop
C3_Progress == pc = "loop" => (pc' = "done" \/ i' = i + 1)
C3_Terminates == []C3_Bounded /\ [][C3_Progress]_vars
\* reached: bisection used up a budget of several steps
C3_Witness ==
    /\ method = "bisection"
    /\ pc = "done"
    /\ max_iter >= 2
    /\ i = max_iter
    /\ IsDidNotConverge(outcome)

(***************************************************************************)
(* C4.  Every root-finding entry point called with max_iter <= 0 or        *)
(* tolerance <= 0 fails with InvalidInput: the supplied function is never  *)
(* evaluated, no step runs and the call ends with that error.              *)
(***************************************************************************)
C4_BadControlsRejected ==
    (method # "none" /\ (max_iter <= 0 \/ tolerance.n <= 0)) =>
        /\ evals = 0
        /\ i = 0
        /\ results = <<>>
        /\ pc = "done" => IsInvalidInput(outcome)

(***************************************************************************)
(* C5.  Whenever an evaluator raises during a call, whatever the exception *)
(* type, the call ends with EvaluationError; for simple iteration the      *)
(* error carries the x at which g raised and the cause.                    *)
(***************************************************************************)
C5_EvaluatorErrorsWrapped ==
    (pc = "done" /\ EvaluatorFailed(outcome)) =>
        /\ IsEvaluationError(outcome)
        /\ method = "simple_iteration" =>
              /\ outcome.info[1] = loc.x
              /\ outcome.info[2] = Call(func, loc.x).exc

(***************************************************************************)
(* C6.  For points with pairwise distinct x-values, both interpolators     *)
(* evaluated at a node x_k return y_k exactly.                             *)
(***************************************************************************)
DistinctXs(xp) ==
    \A j, k \in 1 .. Len(xp) : j # k => xp[j] # xp[k]
C6_ExactAtNodes ==
    DistinctXs(x_points) =>
        \A k \in 1 .. Len(x_points) :
            x_interp = x_points[k] =>
                /\ lagrange # <<>> => lagrange[1] = y_points[k]
                /\ newton # <<>> => newton[1] = y_points[k]
\* reached: three distinct nodes, not all on one line, both methods called
\* at the last node
C6_Witness ==
    /\ Len(x_points) = 3
    /\ DistinctXs(x_points)
    /\ x_interp = x_points[3]
    /\ y_points[1] # y_points[2]
    /\ y_points[3] = y_points[1]
    /\ lagrange # <<>>
    /\ newton # <<>>

(***************************************************************************)
(* C7.  For points with pairwise distinct x-values and any evaluation      *)
(* point, lagrange_interpolation and newton_divided_difference return the  *)
(* same value.                                                             *)
(***************************************************************************)
C7_MethodsAgree ==
    (DistinctXs(x_points) /\ lagrange # <<>> /\ newton # <<>>) =>
        lagrange[1] = newton[1]
\* reached: both methods called between the nodes of three distinct points
\* that are not on one line
C7_Witness ==
    /\ Len(x_points) = 3
    /\ DistinctXs(x_points)
    /\ \A k \in 1 .. 3 : x_interp # x_points[k]
    /\ y_points[1] # y_points[2]
    /\ y_points[3] = y_points[1]
    /\ lagrange # <<>>
    /\ newton # <<>>
    /\ lagrange[1] \notin { y_points[k] : k \in 1 .. 3 }

(***************************************************************************)
(* C8.  Round trip of the fits: for data lying exactly on a line           *)
(* y = a1*x + a0 with two distinct x-values calculate_first_degree returns *)
(* (a0, a1); for data lying exactly on a parabola y = a2*x^2 + a1*x + a0   *)
(* with three distinct x-values calculate_second_degree returns            *)
(* (a0, a1, a2).  The line and the parabola are those through two and      *)
(* three of the data points.                                               *)
(***************************************************************************)
\* the usable rows of the table, as (x, y) pairs in table order
RECURSIVE C8_Points(_)
C8_Points(k) ==
    IF k = 0 THEN <<>>
    ELSE IF table[k].use /\ table[k].x.parses /\ table[k].y.parses
      THEN Append(C8_Points(k - 1), <<table[k].x.val, table[k].y.val>>)
      ELSE C8_Points(k - 1)
C8_Data == C8_Points(Len(table))
C8_Slope(p, q) == RDiv(RSub(q[2], p[2]), RSub(q[1], p[1]))
C8_Line(p, q) ==
    LET a1 == C8_Slope(p, q)
    IN  <<RSub(p[2], RMul(a1, p[1])), a1>>
C8_Parabola(p, q, r) ==
    LET a2 == RDiv(RSub(C8_Slope(q, r), C8_Slope(p, q)), RSub(r[1], p[1]))
        a1 == RSub(C8_Slope(p, q), RMul(a2, RAdd(p[1], q[1])))
        a0 == RAdd(RSub(p[2], RMul(C8_Slope(p, q), p[1])),
                   RMul(a2, RMul(p[1], q[1])))
    IN  <<a0, a1, a2>>
C8_On(c, p) ==
    p[2] = RAdd(c[1], RAdd(RMul(c[2], p[1]),
                           IF Len(c) = 3 THEN RMul(c[3], RMul(p[1], p[1]))
                                         ELSE RZero))
C8_AllOn(c) == \A m \in 1 .. Len(C8_Data) : C8_On(c, C8_Data[m])
C8_RoundTrip ==
    LET D == C8_Data
        I == 1 .. Len(D)
    IN  /\ fit_call = "calculate_first_degree" =>
              \A j, k \in I :
                  (D[j][1] # D[k][1] /\ C8_AllOn(C8_Line(D[j], D[k]))) =>
                      /\ fit_result.exc = "none"
                      /\ fit_result.val = C8_Line(D[j], D[k])
        /\ fit_call = "calculate_second_degree" =>
              \A j, k, l \in I :
                  (/\ D[j][1] # D[k][1] /\ D[k][1] # D[l][1] /\ D[j][1] # D[l][1]
                   /\ C8_AllOn(C8_Parabola(D[j], D[k], D[l]))) =>
                      /\ fit_result.exc = "none"
                      /\ fit_result.val = C8_Parabola(D[j], D[k], D[l])
\* reached: three points of y = 2x + 1, two of them distinct, fitted to (1, 2)
C8_Witness ==
    /\ fit_call = "calculate_first_degree"
    /\ Len(C8_Data) = 3
    /\ C8_AllOn(<<RInt(1), RInt(2)>>)
    /\ \E j, k \in 1 .. 3 : C8_Data[j][1] # C8_Data[k][1]
    /\ fit_result.val = <<RInt(1), RInt(2)>>

(***************************************************************************)
(* C9.  calculate_fitting on a table with fewer than 3 usable points fails *)
(* with an error: no linear system is solved and no coefficient of either  *)
(* degree is displayed; the pane asks for at least 3 valid points.         *)
(***************************************************************************)
C9_Aligned ==
    \A k \in 1 .. Len(table) :
        (table[k].use /\ table[k].x.parses) => table[k].y.parses
C10_DistinctXs == Cardinality({ C8_Data[k][1] : k \in 1 .. Len(C8_Data) })
C11_DuplicatesRejected ==
    ~DistinctXs(x_points) => (lagrange = <<>> /\ newton = <<>>)

(***************************************************************************)
(* C12.  Curve fitting on data holding two points with the same x and      *)
(* different y rejects the data: the fit operation returns no coefficients *)
(* and the pane shows none.                                                *)
(***************************************************************************)
C12_Conflict ==
    \E j, k \in 1 .. Len(C8_Data) :
        C8_Data[j][1] = C8_Data[k][1] /\ C8_Data[j][2] # C8_Data[k][2]
C12_DuplicatesRejected ==
    (fit_call # "none" /\ C9_Aligned /\ C12_Conflict) =>
        /\ fit_result.val = <<>>
        /\ results_text.first = <<>>
        /\ results_text.second = <<>>

(***************************************************************************)
(* C13.  In a bisection run on a valid bracket the width b - a recorded at *)
(* step k+1 is strictly smaller than the width recorded at step k, for     *)
(* every pair of consecutive records, and each recorded bracket is         *)
(* contained in the one before it.                                         *)
(***************************************************************************)
C13_Width(rec) == RSub(rec[3], rec[2])
C13_BracketsHalve ==
    method = "bisection" =>
        \A k \in 1 .. Len(results) - 1 :
            /\ RLt(C13_Width(results[k + 1]), C13_Width(results[k]))
            /\ RLe(results[k][2], results[k + 1][2])
            /\ RLe(results[k + 1][3], results[k][3])

(***************************************************************************)
(* C14.  Secant returns whenever its convergence test holds: a step that   *)
(* evaluates f at x0 and x1 with |f(x1)| < tol, or with x_next at a        *)
(* distance below 10^-fixed_digits of x1, ends the call by returning the   *)
(* trace with that step as its last record.                                *)
(***************************************************************************)
C14_Evaluated ==
    /\ method = "secant"
    /\ pc = "loop"
    /\ i < max_iter
    /\ Call(func, loc.x0).exc = "none"
    /\ Call(func, loc.x1).exc = "none"
C14_Denominator == RSub(Value(func, loc.x1), Value(func, loc.x0))
C14_XNext ==
    RSub(loc.x1, RDiv(RMul(Value(func, loc.x1), RSub(loc.x1, loc.x0)),
                      C14_Denominator))
C14_TestHolds ==
    \/ RLt(RAbs(Value(func, loc.x1)), tolerance)
    \/ /\ C14_Denominator # RZero
       /\ RLt(RAbs(RSub(C14_XNext, loc.x1)), Pow10Neg(fixed_digits))
C14_ReturnsStep ==
    /\ pc' = "done"
    /\ outcome' = Returned
    /\ Len(results') = Len(results) + 1
    /\ results'[Len(results')] =
          <<i + 1, loc.x0, loc.x1, C14_XNext, Value(func, loc.x1)>>
C14_ConvergesWhenTestHolds ==
    [][(C14_Evaluated /\ C14_TestHolds) => C14_ReturnsStep]_vars
\* amended: ... provided the step's denominator f(x1) - f(x0) has a magnitude
\* of at least 1e-10
C14_ConvergesWhenStable ==
    [][(C14_Evaluated /\ C14_Denominator # RZero /\ C14_TestHolds)
          => C14_ReturnsStep]_vars
\* reached: a second step returned on the step-size test alone
C14_Witness ==
    /\ method = "secant"
    /\ outcome = Returned
    /\ Len(results) = 2
    /\ ~RLt(RAbs(results[2][5]), tolerance)

(***************************************************************************)
(* C15.  A secant step that finds |f(x1) - f(x0)| < 1e-10 fails with       *)
(* NumericallyUnstable, naming the step, without dividing and without      *)
(* appending a record; every recorded step has f(x1) - f(x0) of magnitude  *)
(* at least 1e-10.                                                         *)
(***************************************************************************)
C15_Unstable ==
    Raised("ValueError", "Denominator too close to zero", <<i + 1>>)
C15_RecordsStable ==
    method = "secant" =>
        \A k \in 1 .. Len(results) :
            Value(func, results[k][3]) # Value(func, results[k][2])
C15_FailsBeforeDividing ==
    (C14_Evaluated /\ C14_Denominator = RZero) =>
        /\ pc' = "done"
        /\ outcome' = C15_Unstable
        /\ results' = results
C15_UnstableFails == []C15_RecordsStable /\ [][C15_FailsBeforeDividing]_vars
\* reached: the first step on a parabola found f(x1) = f(x0) at two
\* different guesses
C15_Witness ==
    /\ method = "secant"
    /\ outcome = C15_Unstable
    /\ func.c2 # RZero
    /\ args[1] # args[2]
    /\ evals = 2
    /\ results = <<>>

(***************************************************************************)
(* C16.  SimpleIteration fails with Diverging whenever a step produces     *)
(* |x_next| > 1e6: once the last record of a simple-iteration trace has an *)
(* x_next of magnitude above 1e6 the call is over with Diverging, and so   *)
(* is never returned.                                                      *)
(***************************************************************************)
C16_Last == results[Len(results)]
C16_Above(p) ==
    LET q == IAbs(p.n) \div p.d
        r == IAbs(p.n) % p.d
    IN  q > 1000000 \/ (q = 1000000 /\ r # 0)
C16_DivergingStops ==
    (method = "simple_iteration" /\ Len(results) >= 1 /\ C16_Above(C16_Last[3])) =>
        /\ pc = "done"
        /\ IsDiverging(outcome)
\* amended: ... whenever a step that does not meet the convergence test
\* produces |x_next| > 1e6; a step that meets it is returned whatever the
\* magnitude of its x_next.  Diverging is raised for no other step, and
\* names the step and its two values.
C16_DivergingUnlessConverged ==
    method = "simple_iteration" =>
        /\ \A k \in 1 .. Len(results) - 1 : ~C16_Above(results[k][3])
        /\ (Len(results) >= 1 /\ C16_Above(C16_Last[3])) =>
              /\ pc = "done"
              /\ IF C2_Test(C16_Last)
                    THEN outcome = Returned
                    ELSE /\ IsDiverging(outcome)
                         /\ outcome.info = <<Len(results), C16_Last[2], C16_Last[3]>>
        /\ IsDiverging(outcome) =>
              /\ Len(results) >= 1
              /\ C16_Above(C16_Last[3])
              /\ ~C2_Test(C16_Last)
\* reached: a first step from 200000 to 2000000 that failed both
\* convergence tests
C16_Witness ==
    /\ method = "simple_iteration"
    /\ IsDiverging(outcome)
    /\ C16_Last[2] = RInt(200000)
    /\ C16_Last[3] = RInt(2000000)

(***************************************************************************)
(* C17.  SimpleIteration fails with Oscillating at any step that neither   *)
(* converges nor diverges and leaves a trace of at least four records      *)
(* whose last four x-values hold at most two distinct values.              *)
(***************************************************************************)
C17_LastFourXs == { results[k][2] : k \in Len(results) - 3 .. Len(results) }
C17_OscillatingStops ==
    (/\ method = "simple_iteration"
     /\ Len(results) >= 4
     /\ Cardinality(C17_LastFourXs) <= 2
     /\ ~C2_Test(C16_Last)
     /\ ~C16_Above(C16_Last[3])) =>
        /\ pc = "done"
        /\ IsOscillating(outcome)

(***************************************************************************)
(* C18.  The divergence and oscillation stops come before the iteration    *)
(* cap: when the max_iter-th step of secant, simple iteration or           *)
(* Newton-Raphson does not converge and yields |x_next| > 1e6, or (simple  *)
(* iteration) meets the oscillation check, the call ends at that step with *)
(* the divergence or oscillation error, not with DidNotConverge; the step  *)
(* is the last one recorded.  Newton-Raphson reports its divergence as     *)
(* "Error in iteration max_iter: Method diverging".                        *)
(***************************************************************************)
C18_LastStep ==
    /\ method \in { "secant", "simple_iteration", "newton" }
    /\ max_iter >= 1
    /\ Len(results) = max_iter
    /\ ~C2_Test(C16_Last)
C18_Diverged ==
    CASE method = "secant" -> C16_Above(C16_Last[4])
      [] method = "simple_iteration" -> C16_Above(C16_Last[3])
      [] method = "newton" ->
           NewtonDiverging(C16_Last[2], C16_Last[3], DerivValue(dfunc, C16_Last[2]))
C18_Oscillated ==
    /\ method = "simple_iteration"
    /\ max_iter - 1 > 4
    /\ Cardinality(C17_LastFourXs) <= 2
C19_Raising ==
    /\ method = "newton"
    /\ pc = "done"
    /\ i < max_iter
    /\ Call(func, loc.x).exc # "none" \/ Call(dfunc, loc.x).exc # "none"
C19_Cause ==
    IF Call(func, loc.x).exc # "none" THEN Call(func, loc.x).exc
                                     ELSE Call(dfunc, loc.x).exc
C19_EvaluatorErrorAborts ==
    C19_Raising =>
        /\ outcome = Raised("ValueError", "Error in iteration",
                            <<Len(results) + 1, C19_Cause>>)
        /\ IsEvaluationError(outcome)
        /\ Len(results) = i
\* reached: f' raised at the second step, after one recorded step
C19_Witness ==
    /\ C19_Raising
    /\ Call(func, loc.x).exc = "none"
    /\ Len(results) = 1
    /\ outcome.info[1] = 2

(***************************************************************************)
(* C20.  A Newton-Raphson step that does not converge and yields           *)
(* |x_next| > 1e6 ends the call with Diverging, an error that is neither   *)
(* reported in the form of EvaluationError ("Error in iteration k: ...")   *)
(* nor as DidNotConverge.                                                  *)
(***************************************************************************)
C20_DivergingStep ==
    /\ method = "newton"
    /\ Len(results) >= 1
    /\ ~C2_Test(C16_Last)
    /\ NewtonDiverging(C16_Last[2], C16_Last[3], DerivValue(dfunc, C16_Last[2]))
C20_DivergingDistinct ==
    C20_DivergingStep =>
        /\ pc = "done"
        /\ IsDiverging(outcome)
        /\ outcome.msg # "Error in iteration"
        /\ ~IsDidNotConverge(outcome)

(***************************************************************************)
(* C21.  Newton-Raphson never divides by a derivative of magnitude below   *)
(* 1e-10 unmodified.  At a step where f and f' evaluate and                *)
(* |f'(x)| < 1e-10: if |f(x)| < tolerance the call returns with the record *)
(* (k, x, f(x), 0.0) appended; otherwise the step is taken with the        *)
(* derivative f'(x) + sign(f'(x)) * 1e-10 (1e-10 when f'(x) is exactly 0): *)
(* the record (k, x, f(x), |step|) is appended, no division error ends the *)
(* call, and the call returns, reports divergence or goes on from          *)
(* x - step.                                                               *)
(***************************************************************************)
C21_AtStep ==
    /\ pc = "loop"
    /\ method = "newton"
    /\ i < max_iter
    /\ Call(func, loc.x).exc = "none"
    /\ Call(dfunc, loc.x).exc = "none"
C21_Fx == Value(func, loc.x)
\* f'(x) in units of 10^-11 where the derivative callable is scaled
C21_Dv == Value(dfunc, loc.x)
C21_Flat ==
    \/ C21_Dv = RZero
    \/ Exponent(dfunc) = 11 /\ RLt(RAbs(C21_Dv), RInt(10))
\* the replaced derivative in units of 10^-11
C21_Replaced ==
    IF C21_Dv = RZero THEN RInt(10)
    ELSE IF C21_Dv.n > 0 THEN RAdd(C21_Dv, RInt(10))
    ELSE RSub(C21_Dv, RInt(10))
\* f(x) / replaced derivative is C21_Ratio * 10^11; within 1e7 in magnitude
\* it is computed
C21_Ratio == RDiv(C21_Fx, C21_Replaced)
C21_Computable == RLe(RAbs(C21_Ratio), Rat(1, 10000))
C21_Step == RMul(RMul(C21_Ratio, RInt(100000)), RInt(1000000))
C21_Appended(rec) ==
    /\ Len(results') = Len(results) + 1
    /\ SubSeq(results', 1, Len(results)) = results
    /\ rec = results'[Len(results')]
C21_DivergingRaised ==
    /\ pc' = "done"
    /\ outcome' = Raised("ValueError", "Error in iteration",
                         <<i + 1, "Method diverging">>)
C21_StepTaken ==
    /\ \E rec \in { results'[Len(results')] } :
          /\ C21_Appended(rec)
          /\ rec[1] = i + 1 /\ rec[2] = loc.x /\ rec[3] = C21_Fx
          /\ C21_Computable => rec[4] = RAbs(C21_Step)
    /\ ~(outcome'.kind = "raise" /\ outcome'.type = "ZeroDivisionError")
    /\ ~(outcome'.kind = "raise" /\ outcome'.msg = "Error in iteration"
           /\ outcome'.info[2] = "ZeroDivisionError")
    /\ IF ~C21_Computable THEN C21_DivergingRaised
       ELSE IF RLt(RAbs(C21_Step), tolerance)
         THEN pc' = "done" /\ outcome' = Returned
       ELSE IF C16_Above(RSub(loc.x, C21_Step)) THEN C21_DivergingRaised
       ELSE /\ pc' = "loop"
            /\ i' = i + 1
            /\ loc'.x = RSub(loc.x, C21_Step)
C21_FlatStep ==
    (C21_AtStep /\ C21_Flat) =>
        IF RLt(RAbs(C21_Fx), tolerance)
          THEN /\ results' = Append(results, <<i + 1, loc.x, C21_Fx, RZero>>)
               /\ pc' = "done"
               /\ outcome' = Returned
          ELSE C21_StepTaken
C21_NeverDividesByFlatDerivative == [][C21_FlatStep]_vars
\* reached: a second step after a step taken with the nudged derivative
\* -1e-11 - 1e-10, which moved x upwards by less than 1e6
C21_Witness ==
    /\ method = "newton"
    /\ Exponent(dfunc) = 11
    /\ dfunc.c0.n < 0
    /\ Len(results) >= 2
    /\ RLt(results[1][2], results[2][2])
    /\ results[1][4] = Rat(1000000, 11)

(***************************************************************************)
(* C22.  In every solver the trace is append-only and 1-based: at every    *)
(* point of a run the k-th record carries the iteration index k, no step   *)
(* changes or removes a record already appended, and every executed pass   *)
(* of the loop appends exactly one record, except a pass aborted by an     *)
(* error raised before the record is written (an evaluator that raises,    *)
(* the secant denominator test or its division), which appends none.       *)
(***************************************************************************)
C22_Indexed == \A k \in 1 .. Len(results) : results[k][1] = k
C22_Kept ==
    /\ Len(results') >= Len(results)
    /\ SubSeq(results', 1, Len(results)) = results
\* the errors the code raises above its `results.append`
C22_RaisedBeforeRecording(o) ==
    /\ o.kind = "raise"
    /\ \/ EvaluatorFailed(o)
       \/ o.msg = "Denominator too close to zero"
       \/ o.type = "ZeroDivisionError"
C22_Pass ==
    (pc = "loop" /\ i < max_iter) =>
        IF C22_RaisedBeforeRecording(outcome')
          THEN results' = results
          ELSE Len(results') = Len(results) + 1
C22_AppendOnly == []C22_Indexed /\ [][C22_Kept /\ C22_Pass]_vars
\* reached: a trace of two records or more, the last appended by a pass that
\* then raised
C22_Witness ==
    /\ Len(results) >= 2
    /\ pc = "done"
    /\ outcome.kind = "raise"
    /\ i = Len(results) - 1

(***************************************************************************)
(* C23.  For points with pairwise distinct x-values, every permutation of  *)
(* the points and every x, newton_divided_difference returns the same      *)
(* interpolated value for the permuted points as for the original order    *)
(* (the table of divided differences may differ).                          *)
(***************************************************************************)
C23_Distinct ==
    \A j, k \in 1 .. Len(x_points) : j # k => x_points[j] # x_points[k]
C23_Permutations ==
    { p \in [1 .. Len(x_points) -> 1 .. Len(x_points)] :
        \A j, k \in 1 .. Len(x_points) : j # k => p[j] # p[k] }
C23_Permuted(s, p) == [k \in 1 .. Len(s) |-> s[p[k]]]
C23_Reordered(p) ==
    newton_divided_difference(C23_Permuted(x_points, p), C23_Permuted(y_points, p),
                              x_interp)
C23_OrderIndependent ==
    (newton # <<>> /\ C23_Distinct) =>
        \A p \in C23_Permutations : C23_Reordered(p)[1] = newton[1]
\* reached: three distinct nodes interpolated off the nodes, to a nonzero
\* value, where some reordering changes the table
C23_Witness ==
    /\ newton # <<>>
    /\ C23_Distinct
    /\ Len(x_points) = 3
    /\ x_interp = Rat(3, 2)
    /\ newton[1] # RZero
    /\ \E p \in C23_Permutations : C23_Reordered(p)[2] # newton[2]

(***************************************************************************)
(* C24.  The solvers are re-entrant pure functions: of two calls whose     *)
(* steps are interleaved arbitrarily, each ends with exactly the outcome   *)
(* and trace it has when run alone, the same inputs give the same outcome, *)
(* and no step changes the arguments of its own call or anything of the    *)
(* other call.                                                             *)
(***************************************************************************)
C24_FrameOf(c) == IF c = active THEN CallFrame ELSE parked
C24_Arguments(fr) ==
    <<fr.method, fr.func, fr.dfunc, fr.tolerance, fr.max_iter, fr.fixed_digits,
      fr.args>>
C24_Result(fr) == <<fr.outcome, fr.results>>
\* every step leaves to each call the result it has when run alone from where
\* it stands, keeps the arguments of a call under way, and changes the frame
\* of one call at most
C24_StepIsolated ==
    /\ \A c \in { 1, 2 } :
          C24_FrameOf(c).pc # "idle" =>
              /\ C24_Result(RunAlone(C24_FrameOf(c)')) =
                     C24_Result(RunAlone(C24_FrameOf(c)))
              /\ C24_Arguments(C24_FrameOf(c)') = C24_Arguments(C24_FrameOf(c))
    /\ \E c \in { 1, 2 } : C24_FrameOf(c)' = C24_FrameOf(c)
\* two calls with the same arguments that are over have the same result
C24_Deterministic ==
    (pc = "done" /\ parked.pc = "done"
       /\ C24_Arguments(CallFrame) = C24_Arguments(parked)) =>
        C24_Result(CallFrame) = C24_Result(parked)
C25_Brackets(a, b) ==
    /\ RLt(a, b)
    /\ RLt(RMul(Value(func, a), Value(func, b)), RZero)
C25_RecordBrackets(rec) ==
    /\ C25_Brackets(rec[2], rec[3])
    /\ RLt(rec[2], rec[4]) /\ RLt(rec[4], rec[3])
    /\ RAdd(rec[4], rec[4]) = RAdd(rec[2], rec[3])
    /\ rec[5] = Value(func, rec[4])
C25_BracketInvariant ==
    method = "bisection" =>
        /\ \A k \in 1 .. Len(results) : C25_RecordBrackets(results[k])
        /\ pc = "loop" => C25_Brackets(loc.a, loc.b)
        /\ (pc = "done" /\ IsDidNotConverge(outcome)) =>
              /\ outcome.info = <<loc.a, loc.b>>
              /\ C25_Brackets(loc.a, loc.b)
              /\ Len(results) >= 1 =>
                    \/ <<loc.a, loc.b>> = <<results[Len(results)][2], results[Len(results)][4]>>
                    \/ <<loc.a, loc.b>> = <<results[Len(results)][4], results[Len(results)][3]>>

(***************************************************************************)
(* C26.  The divided-difference table built by newton_divided_difference   *)
(* and by NewtonDetails is the same n-by-n grid for the same ordered       *)
(* points: table[i][0] = y_i,                                              *)
(* table[i][j] = (table[i+1][j-1] - table[i][j-1]) / (x_{i+j} - x_i) for   *)
(* 1 <= j < n and i + j < n, every other entry is 0; the table does not    *)
(* depend on the evaluation point x, and the returned value is             *)
(* table[0][0] + sum over j of table[0][j] * product_{k<j} (x - x_k).      *)
(***************************************************************************)
C26_N == Len(x_points)
C26_Grid(t) ==
    /\ DOMAIN t = (0 .. C26_N - 1) \X (0 .. C26_N - 1)
    /\ \A r \in 0 .. C26_N - 1 : t[r, 0] = y_points[r + 1]
    /\ \A r \in 0 .. C26_N - 1 : \A c \in 1 .. C26_N - 1 :
          IF r + c < C26_N
            THEN t[r, c] = FDiv(FSub(t[r + 1, c - 1], t[r, c - 1]),
                                FSub(x_points[r + c + 1], x_points[r + 1]))
            ELSE t[r, c] = RZero
\* product over k < j of (x - x_k), nodes counted from 0
RECURSIVE C26_Product(_, _)
C26_Product(x, j) ==
    IF j = 0 THEN RInt(1)
    ELSE FMul(C26_Product(x, j - 1), FSub(x, x_points[j]))
\* table[0][0] + the terms 1 .. j
RECURSIVE C26_Sum(_, _, _)
C26_Sum(t, x, j) ==
    IF j = 0 THEN t[0, 0]
    ELSE FAdd(C26_Sum(t, x, j - 1), FMul(t[0, j], C26_Product(x, j)))
C26_TableStructure ==
    /\ newton # <<>> =>
          /\ C26_Grid(newton[2])
          /\ newton[1] = C26_Sum(newton[2], x_interp, C26_N - 1)
          /\ \A x \in InterpAt :
                newton_divided_difference(x_points, y_points, x)[2] = newton[2]
    /\ details # <<>> => C26_Grid(details[1])
    /\ (newton # <<>> /\ details # <<>>) => details[1] = newton[2]
\* reached: both tables built for three distinct nodes, with a nonzero
\* second difference
C26_Witness ==
    /\ newton # <<>>
    /\ details # <<>>
    /\ C26_N = 3
    /\ C23_Distinct
    /\ details[1][0, 2] # RZero
    /\ details[1][2, 1] = RZero

(***************************************************************************)
(* C27.  Consecutive records chain.  Simple iteration: x_next = g(x) in    *)
(* every record and the x of record k+1 is the x_next of record k.         *)
(* Secant: x_next = x1 - f(x1) * (x1 - x0) / (f(x1) - f(x0)) in every      *)
(* record and (x0, x1) of record k+1 is (x1, x_next) of record k.          *)
(* Newton-Raphson: the x of record k+1 is the x of record k minus          *)
(* f(x) / f'(x), with the nudged derivative where |f'(x)| < 1e-10.  The    *)
(* first record starts from the initial guesses.                           *)
(***************************************************************************)
C27_F(x) == Value(func, x)
\* f(x) / f'(x) at x, the derivative nudged by 1e-10 away from 0 when it is
\* 0 or given in units of 1e-11
C27_NewtonQuotient(x) ==
    LET dv == Value(dfunc, x)
        nudged == IF dv = RZero THEN RInt(10)
                  ELSE IF dv.n > 0 THEN RAdd(dv, RInt(10))
                  ELSE RSub(dv, RInt(10))
    IN  IF dv # RZero /\ Exponent(dfunc) = 0
          THEN RDiv(C27_F(x), dv)
          ELSE RMul(RMul(RDiv(C27_F(x), nudged), RInt(100000)), RInt(1000000))
C27_First ==
    results # <<>> =>
        IF method = "secant" THEN <<results[1][2], results[1][3]>> = args
                             ELSE <<results[1][2]>> = args
C27_Each(rec) ==
    /\ method = "simple_iteration" => rec[3] = C27_F(rec[2])
    /\ method = "secant" =>
          /\ rec[5] = C27_F(rec[3])
          /\ rec[4] = RSub(rec[3],
                           RDiv(RMul(C27_F(rec[3]), RSub(rec[3], rec[2])),
                                RSub(C27_F(rec[3]), C27_F(rec[2]))))
    /\ method = "newton" => rec[3] = C27_F(rec[2])
C27_Linked(rec, nxt) ==
    /\ method = "simple_iteration" => nxt[2] = rec[3]
    /\ method = "secant" => <<nxt[2], nxt[3]>> = <<rec[3], rec[4]>>
    /\ method = "newton" => nxt[2] = RSub(rec[2], C27_NewtonQuotient(rec[2]))
C27_RecordsChain ==
    method \in { "simple_iteration", "secant", "newton" } =>
        /\ C27_First
        /\ \A k \in 1 .. Len(results) : C27_Each(results[k])
        /\ \A k \in 1 .. Len(results) - 1 : C27_Linked(results[k], results[k + 1])
        /\ pc = "loop" =>
              \/ results = <<>>
              \/ method = "simple_iteration" /\ loc.x = results[Len(results)][3]
              \/ method = "secant"
                   /\ <<loc.x0, loc.x1>> =
                         <<results[Len(results)][3], results[Len(results)][4]>>
              \/ method = "newton"
                   /\ loc.x = RSub(results[Len(results)][2],
                                   C27_NewtonQuotient(results[Len(results)][2]))
\* reached: a Newton-Raphson trace of three records whose first two steps
\* used the derivative 1e-11 nudged to 1.1e-10 and moved x downwards
C27_Witness ==
    /\ method = "newton"
    /\ Exponent(dfunc) = 11
    /\ dfunc.c0.n > 0
    /\ Len(results) = 3
    /\ RLt(results[2][2], results[1][2])
    /\ RLt(results[3][2], results[2][2])

(***************************************************************************)
(* C28.  Simple iteration raises Oscillating only at iteration 6 or later, *)
(* and only when the x-values of the last four records alternate between   *)
(* two distinct values (a, b, a, b with a # b).  For an exact 2-cycle      *)
(* (g(a) = b, g(b) = a, |a - b| >= tolerance, not within the relative      *)
(* threshold) started at a, the call fails with Oscillating at iteration 6 *)
(* when max_iter >= 6 and with DidNotConverge when max_iter <= 5.          *)
(***************************************************************************)
C28_OnlyLateAndAlternating ==
    (method = "simple_iteration" /\ IsOscillating(outcome)) =>
        LET n == Len(results)
        IN  /\ n >= 6
            /\ outcome.info = <<n>>
            /\ results[n - 3][2] = results[n - 1][2]
            /\ results[n - 2][2] = results[n][2]
            /\ results[n - 1][2] # results[n][2]
C28_A == args[1]
C28_B == Value(func, C28_A)
\* |a - b| * 10^fixed_digits > |to|: the step to `to` is not within the
\* relative threshold (the 1e-10 of the denominator is below the spacing of
\* the values compared)
C28_RelativeAbove(to) ==
    RLt(RAbs(to), RMul(RAbs(RSub(C28_A, C28_B)), RInt(IPow10(fixed_digits))))
C28_TwoCycle ==
    /\ method = "simple_iteration"
    /\ Call(func, C28_A).exc = "none"
    /\ Call(func, C28_B).exc = "none"
    /\ C28_A # C28_B
    /\ Value(func, C28_B) = C28_A
    /\ RLe(tolerance, RAbs(RSub(C28_A, C28_B)))
    /\ C28_RelativeAbove(C28_A) /\ C28_RelativeAbove(C28_B)
C28_CycleOutcome ==
    pc = "done" =>
        IF max_iter >= 6 THEN IsOscillating(outcome) /\ outcome.info = <<6>>
                         ELSE IsDidNotConverge(outcome)
\* the controls pass the argument checks of the call
C28_ValidControls == max_iter >= 1 /\ RLt(RZero, tolerance)
\* the statement as made, for every 2-cycle
C28_TwoCycleFails ==
    /\ C28_OnlyLateAndAlternating
    /\ (C28_TwoCycle /\ C28_ValidControls) => C28_CycleOutcome
\* the statement for the 2-cycles within the divergence limit of 1e6
C28_Admitted ==
    /\ C28_ValidControls
    /\ ~C16_Above(C28_A)
    /\ ~C16_Above(C28_B)
C28_AdmittedTwoCycleFails ==
    /\ C28_OnlyLateAndAlternating
    /\ (C28_TwoCycle /\ C28_Admitted) => C28_CycleOutcome
\* reached: the 2-cycle of g(x) = -x reported at iteration 6
C28_Witness ==
    /\ C28_TwoCycle
    /\ C28_Admitted
    /\ pc = "done"
    /\ IsOscillating(outcome)
    /\ Len(results) = 6

(***************************************************************************)
(* C29.  Bisection on a valid bracket [a0, b0] converges once the cap is   *)
(* large enough: the bracket recorded at step k has the width              *)
(* (b0 - a0) / 2^(k-1), so if (b0 - a0) / 2^(max_iter-1) is below          *)
(* 10^-fixed_digits the call returns a converged trace and never fails     *)
(* with DidNotConverge, for every function f (an f that evaluates at each  *)
(* midpoint) with f(a0) * f(b0) < 0.                                       *)
(***************************************************************************)
C29_ValidBracket ==
    /\ method = "bisection"
    /\ max_iter >= 1
    /\ RLt(RZero, tolerance)
    /\ RLt(args[1], args[2])
    /\ Call(func, args[1]).exc = "none"
    /\ Call(func, args[2]).exc = "none"
    /\ RLt(RMul(Value(func, args[1]), Value(func, args[2])), RZero)
C29_WidthAt(k) == RDiv(RSub(args[2], args[1]), RInt(2 ^ (k - 1)))
C29_CapSuffices == RLt(C29_WidthAt(max_iter), Rat(1, IPow10(fixed_digits)))
C29_EvaluatorRaised == outcome.kind = "raise" /\ outcome.msg = "raised by func"
C29_ConvergesUnderCap ==
    C29_ValidBracket =>
        /\ \A k \in 1 .. Len(results) :
              RSub(results[k][3], results[k][2]) = C29_WidthAt(k)
        /\ C29_CapSuffices =>
              /\ ~IsDidNotConverge(outcome)
              /\ pc = "loop" => i < max_iter
              /\ (pc = "done" /\ ~C29_EvaluatorRaised) =>
                    /\ outcome = Returned
                    /\ results # <<>>
                    /\ C2_Test(results[Len(results)])

(***************************************************************************)
(* C30.  get_table_data keeps the collected x and y sequences aligned:     *)
(* after any sequence of table rows the x list and the y list have the     *)
(* same length, a row whose x or y text does not parse as a number         *)
(* contributes to neither list, and so the data handed to the fit routines *)
(* by calculate_fitting are the (x, y) pairs of the rows that parse.       *)
(***************************************************************************)
C30_WholeRows(t) ==
    SelectSeq(t, LAMBDA row : row.use /\ row.x.parses /\ row.y.parses)
C30_Collected == CollectRows(table, 1, [x |-> <<>>, y |-> <<>>])
C30_RowsAligned ==
    fit_call = "calculate_fitting" =>
        LET whole == C30_WholeRows(table)
        IN  /\ Len(C30_Collected.x) = Len(C30_Collected.y)
            /\ C30_Collected.x = [k \in 1 .. Len(whole) |-> whole[k].x.val]
            /\ C30_Collected.y = [k \in 1 .. Len(whole) |-> whole[k].y.val]
            /\ fit_result.exc = "none"

====
